---- MODULE Spec2Model ----
(***************************************************************************)
(* A5 discrete global grid: the 64-bit cell identifier codec              *)
(* (src/core/serialization.rs) and the compact / uncompact set operations *)
(* (src/core/compact.rs).                                                  *)
(*                                                                         *)
(* A u64 is modelled as the set of its set bit positions (0 = least       *)
(* significant, 63 = most significant), so that every shift, mask and     *)
(* addition keeps its 64-bit width.  Small numbers (origin, segment,      *)
(* resolution, loop counters) are ordinary integers.                      *)
(***************************************************************************)
EXTENDS Integers, Naturals, Sequences, FiniteSets, TLC

\* ------------------------------------------------------------------ bounds
\* low resolutions 0..MaxLowRes are explored next to the top ones
MaxLowRes == 3
\* resolutions below the world cell: -1 - MaxNegRes .. -2
MaxNegRes == 2
\* cell_to_children / uncompact expand at most this many Hilbert levels
MaxDiff == 2
\* raw 64-bit inputs: every subset of the TailHigh bits just below bit 58
TailHigh == 3
\* ... and of the TailLow lowest bits
TailLow == 2

\* every s of the Hilbert levels 0..MaxHilbert is explored
MaxHilbert == 3

\* lonlat_to_cell looks at lonlat and MaxSamples - 1 further spiral points
MaxSamples == 3
\* cell_to_boundary is asked for 1..MaxSegments segments per edge
MaxSegments == 3
\* threads calling the library concurrently
MaxThreads == 2
\* the projection is asked about the face triangles 0..MaxFaceTriangle
MaxFaceTriangle == 1
\* bits in the significand of a coordinate
MantissaBits == 4
\* transformations applied to one shape
MaxTransforms == 2

\* ------------------------------------------------------- program constants
FIRST_HILBERT_RESOLUTION == 2
MAX_RESOLUTION == 30
HILBERT_START_BIT == 58
U64_BITS == 64
NUM_ORIGINS == 12
NUM_SEGMENTS == 5

\* ---------------------------------------------------------- u64 arithmetic
\* 2^n for small n
RECURSIVE Pow2(_)
Pow2(n) == IF n = 0 THEN 1 ELSE 2 * Pow2(n - 1)

\* 4_usize.pow(n)
\* 2^n where 4^n is meant
pow_of_two(n) == Pow2(n)

RECURSIVE Pow4(_)
Pow4(n) == IF n = 0 THEN 1 ELSE 4 * Pow4(n - 1)

\* `n as u64` for a small non-negative n
FromNat(n) == {i \in 0..30 : (n \div Pow2(i)) % 2 = 1}

\* `a as usize` for a u64 whose value fits an integer of the model
RECURSIVE ToNat(_)
ToNat(a) ==
    IF a = {} THEN 0
    ELSE LET b == CHOOSE x \in a : TRUE IN Pow2(b) + ToNat(a \ {b})

\* a << k, bits shifted past bit 63 are lost (k in 0..63)
Shl(a, k) == {b + k : b \in {x \in a : x + k < U64_BITS}}

\* a >> k
Shr(a, k) == {b - k : b \in {x \in a : x >= k}}

\* a + b on u64 (carry propagation; no overflow occurs on the values used)
RECURSIVE AddU64(_, _)
AddU64(a, b) ==
    IF b = {} THEN a
    ELSE AddU64((a \cup b) \ (a \cap b), Shl(a \cap b, 1))

\* a < b on u64
LessU64(a, b) ==
    \E x \in b \ a : \A y \in a \ b : y < x

\* First 6 bits 0, remaining 58 bits 1
REMOVAL_MASK == 0..57

WORLD_CELL == {}

\* --------------------------------------------------------------- results
Ok(v) == [kind |-> "ok", val |-> v]
Err(m) == [kind |-> "err", val |-> m]
\* the process aborts: integer overflow with overflow checks, index out of range
Panic == [kind |-> "panic", val |-> "panic"]
IsOk(r) == r.kind = "ok"
IsErr(r) == r.kind = "err"
IsPanic(r) == r.kind = "panic"
\* the process runs out of memory: a vector grows without a reachable bound
Exhausted == [kind |-> "exhausted", val |-> "out of memory"]

\* Option<i32>::None
NoneRes == -100
\* Option<i32> segments: None
NoneSegments == NoneRes

\* ---------------------------------------------------------------- origins
QUINTANT_FIRST == <<4, 2, 3, 2, 0, 4, 3, 2, 2, 0, 3, 0>>
ORIGIN_ORDER == <<0, 1, 2, 4, 3, 5, 7, 8, 6, 11, 10, 9>>

\* get_origins()[origin_id].first_quintant, after the reordering
first_quintant(origin_id) == QUINTANT_FIRST[ORIGIN_ORDER[origin_id + 1] + 1]

\* quintant layouts (clockwise and counterclockwise)
CLOCKWISE_FAN == <<"vu", "uw", "vw", "vw", "vw">>
CLOCKWISE_STEP == <<"wu", "uw", "vw", "vu", "uw">>
COUNTER_STEP == <<"wu", "uv", "wv", "wu", "uw">>
COUNTER_JUMP == <<"vu", "uv", "wv", "wu", "uw">>

QUINTANT_ORIENTATIONS_ARRAYS ==
    <<CLOCKWISE_FAN, COUNTER_JUMP, COUNTER_STEP, CLOCKWISE_STEP,
      COUNTER_STEP, COUNTER_JUMP, COUNTER_STEP, CLOCKWISE_STEP,
      CLOCKWISE_STEP, CLOCKWISE_STEP, COUNTER_JUMP, COUNTER_JUMP>>

\* get_origins()[origin_id].orientation, after the reordering
orientation_layout(origin_id) ==
    QUINTANT_ORIENTATIONS_ARRAYS[ORIGIN_ORDER[origin_id + 1] + 1]

is_layout_clockwise(layout) ==
    layout = CLOCKWISE_FAN \/ layout = CLOCKWISE_STEP

\* the % of i32: the result has the sign of the dividend
rem_i32(a, b) == IF a >= 0 THEN a % b ELSE 0 - ((0 - a) % b)

\* <<segment, orientation>>
quintant_to_segment_same_step(quintant, origin_id) ==
    LET layout == orientation_layout(origin_id)
        delta == (quintant + 5 - first_quintant(origin_id)) % 5
        face_relative_quintant == rem_i32(delta + 5, 5)
    IN  <<(first_quintant(origin_id) + face_relative_quintant) % 5,
          layout[face_relative_quintant + 1]>>

\* <<segment, orientation>>
quintant_to_segment(quintant, origin_id) ==
    LET layout == orientation_layout(origin_id)
        step == IF is_layout_clockwise(layout) THEN -1 ELSE 1
        delta == (quintant + 5 - first_quintant(origin_id)) % 5
        face_relative_quintant == rem_i32(step * delta + 5, 5)
    IN  <<(first_quintant(origin_id) + face_relative_quintant) % 5,
          layout[face_relative_quintant + 1]>>

\* <<quintant, orientation>>
segment_to_quintant(segment, origin_id) ==
    LET layout == orientation_layout(origin_id)
        step == IF is_layout_clockwise(layout) THEN -1 ELSE 1
        face_relative_quintant == (segment + 5 - first_quintant(origin_id)) % 5
        step_offset == rem_i32(step * face_relative_quintant, 5)
    IN  <<IF step_offset >= 0
          THEN (first_quintant(origin_id) + step_offset) % 5
          ELSE (first_quintant(origin_id) + 5 - (0 - step_offset)) % 5,
          layout[face_relative_quintant + 1]>>

\* ------------------------------------------------------------------ codec
RECURSIVE get_resolution_loop(_, _)
get_resolution_loop(resolution, shifted) ==
    IF resolution > -1 /\ 0 \notin shifted
    THEN LET r == resolution - 1
         IN  get_resolution_loop(r,
                 Shr(shifted, IF r < FIRST_HILBERT_RESOLUTION THEN 1 ELSE 2))
    ELSE resolution

get_resolution(index) == get_resolution_loop(MAX_RESOLUTION - 1, Shr(index, 1))

top6_bits(index) == ToNat(Shr(index, 58))

A5Cell(o, seg, s, r) == [origin_id |-> o, segment |-> seg, s |-> s, resolution |-> r]

\* deserialize without the REMOVAL_MASK: the origin bits leak into s
deserialize_unmasked(index) ==
    LET decode(resolution, top6) ==
            LET origin_id == IF resolution = 0 THEN top6 ELSE top6 \div 5
                segment == IF resolution = 0 THEN 0
                           ELSE (top6 + first_quintant(origin_id)) % 5
                hilbert_levels == resolution - FIRST_HILBERT_RESOLUTION + 1
                hilbert_bits == 2 * hilbert_levels
                shift == HILBERT_START_BIT - hilbert_bits
            IN  IF resolution = -1 THEN Ok(A5Cell(0, 0, {}, resolution))
                ELSE IF origin_id >= NUM_ORIGINS
                THEN Err("Could not parse origin")
                ELSE IF resolution < FIRST_HILBERT_RESOLUTION
                THEN Ok(A5Cell(origin_id, segment, {}, resolution))
                ELSE Ok(A5Cell(origin_id, segment,
                               Shr(index, shift), resolution))
    IN  decode(get_resolution(index), top6_bits(index))

deserialize(index) ==
    LET decode(resolution, top6) ==
            LET origin_id == IF resolution = 0 THEN top6 ELSE top6 \div 5
                segment == IF resolution = 0 THEN 0
                           ELSE (top6 + first_quintant(origin_id)) % 5
                hilbert_levels == resolution - FIRST_HILBERT_RESOLUTION + 1
                hilbert_bits == 2 * hilbert_levels
                shift == HILBERT_START_BIT - hilbert_bits
            IN  IF resolution = -1 THEN Ok(A5Cell(0, 0, {}, resolution))
                ELSE IF origin_id >= NUM_ORIGINS
                THEN Err("Could not parse origin")
                ELSE IF resolution < FIRST_HILBERT_RESOLUTION
                THEN Ok(A5Cell(origin_id, segment, {}, resolution))
                ELSE Ok(A5Cell(origin_id, segment,
                               Shr(index \cap REMOVAL_MASK, shift), resolution))
    IN  decode(get_resolution(index), top6_bits(index))

\* HILBERT_START_BIT - r on u32, then 1u64 << that.  r is the marker offset
\* as a signed number congruent (mod 2^32) to the u32 the code holds: for a
\* resolution below -1 the cast `resolution as u32` wraps, so the u32 is
\* huge and the subtraction overflows exactly when r < 0 or r > 58.  With
\* overflow checks the subtraction panics; without them it wraps and the
\* shift amount is taken modulo 64 (64 divides 2^32).
marker_bit(r, checks) ==
    IF r >= 0 /\ r <= HILBERT_START_BIT
    THEN Ok({HILBERT_START_BIT - r})
    ELSE IF checks THEN Panic
    ELSE Ok({(HILBERT_START_BIT - r) % U64_BITS})

\* serialize adding first_quintant instead of subtracting it
serialize_added_quintant(cell, checks) ==
    LET resolution == cell.resolution
        r == IF resolution < FIRST_HILBERT_RESOLUTION THEN resolution + 1
             ELSE 2 * (1 + resolution - FIRST_HILBERT_RESOLUTION) + 1
        segment_n == (cell.segment + first_quintant(cell.origin_id)) % 5
        index0 == IF resolution = 0 THEN Shl(FromNat(cell.origin_id), 58)
                  ELSE Shl(FromNat(5 * cell.origin_id + segment_n), 58)
        hilbert_levels == resolution - FIRST_HILBERT_RESOLUTION + 1
        hilbert_bits == 2 * hilbert_levels
        max_s == {hilbert_bits}
        s_too_large == resolution >= FIRST_HILBERT_RESOLUTION
                       /\ ~LessU64(cell.s, max_s)
        index1 == IF resolution >= FIRST_HILBERT_RESOLUTION
                  THEN AddU64(index0, Shl(cell.s, HILBERT_START_BIT - hilbert_bits))
                  ELSE index0
        marker == marker_bit(r, checks)
    IN  IF resolution > MAX_RESOLUTION THEN Err("Resolution is too large")
        ELSE IF resolution = -1 THEN Ok(WORLD_CELL)
        ELSE IF cell.origin_id >= NUM_ORIGINS THEN Panic
        ELSE IF s_too_large THEN Err("S is too large for resolution level")
        ELSE IF IsPanic(marker) THEN Panic
        ELSE Ok(index1 \cup marker.val)

serialize(cell, checks) ==
    LET resolution == cell.resolution
        r == IF resolution < FIRST_HILBERT_RESOLUTION THEN resolution + 1
             ELSE 2 * (1 + resolution - FIRST_HILBERT_RESOLUTION) + 1
        segment_n == (cell.segment + 5 - first_quintant(cell.origin_id)) % 5
        index0 == IF resolution = 0 THEN Shl(FromNat(cell.origin_id), 58)
                  ELSE Shl(FromNat(5 * cell.origin_id + segment_n), 58)
        hilbert_levels == resolution - FIRST_HILBERT_RESOLUTION + 1
        hilbert_bits == 2 * hilbert_levels
        max_s == {hilbert_bits}
        s_too_large == resolution >= FIRST_HILBERT_RESOLUTION
                       /\ ~LessU64(cell.s, max_s)
        index1 == IF resolution >= FIRST_HILBERT_RESOLUTION
                  THEN AddU64(index0, Shl(cell.s, HILBERT_START_BIT - hilbert_bits))
                  ELSE index0
        marker == marker_bit(r, checks)
    IN  IF resolution > MAX_RESOLUTION THEN Err("Resolution is too large")
        ELSE IF resolution = -1 THEN Ok(WORLD_CELL)
        ELSE IF cell.origin_id >= NUM_ORIGINS THEN Panic
        ELSE IF s_too_large THEN Err("S is too large for resolution level")
        ELSE IF IsPanic(marker) THEN Panic
        ELSE Ok(index1 \cup marker.val)

\* the first entry of results that is not Ok (the `?` in a loop), else Ok of
\* the values
first_failure(results) ==
    LET bad == {i \in 1..Len(results) : ~IsOk(results[i])}
    IN  IF bad = {} THEN Ok([i \in 1..Len(results) |-> results[i].val])
        ELSE results[CHOOSE i \in bad : \A j \in bad : i <= j]

max2(a, b) == IF a >= b THEN a ELSE b

cell_to_children(index, child_resolution, checks) ==
    LET children_of(d) ==
            LET cell == d.val
                current_resolution == cell.resolution
                new_resolution == IF child_resolution = NoneRes
                                  THEN current_resolution + 1
                                  ELSE child_resolution
                new_origin_ids == IF current_resolution = -1
                                  THEN [i \in 1..12 |-> i - 1]
                                  ELSE <<cell.origin_id>>
                new_segments == IF (current_resolution = -1 /\ new_resolution > 0)
                                   \/ current_resolution = 0
                                THEN <<0, 1, 2, 3, 4>> ELSE <<cell.segment>>
                resolution_diff == new_resolution
                     - max2(current_resolution, FIRST_HILBERT_RESOLUTION - 1)
                children_count == IF resolution_diff <= 0 THEN 1
                                  ELSE Pow4(resolution_diff)
                shifted_s == IF resolution_diff > 0
                             THEN Shl(cell.s, 2 * resolution_diff) ELSE cell.s
                no == Len(new_origin_ids)
                ns == Len(new_segments)
                children ==
                    [k \in 1..(no * ns * children_count) |->
                        LET i == (k - 1) % children_count
                            sg == ((k - 1) \div children_count) % ns
                            og == (k - 1) \div (children_count * ns)
                        IN  serialize(A5Cell(new_origin_ids[og + 1],
                                             new_segments[sg + 1],
                                             AddU64(shifted_s, FromNat(i)),
                                             new_resolution), checks)]
            IN  IF ~IsOk(d) THEN d
                ELSE IF new_resolution < current_resolution
                THEN Err("Target resolution must be equal to or greater than current resolution")
                ELSE IF new_resolution > MAX_RESOLUTION
                THEN Err("Target resolution exceeds maximum resolution")
                ELSE IF new_resolution = current_resolution THEN Ok(<<index>>)
                ELSE IF resolution_diff > 20
                THEN Err("Resolution difference too large")
                ELSE first_failure(children)
    IN  children_of(deserialize(index))

cell_to_parent(index, parent_resolution, checks) ==
    LET parent_of(d) ==
            LET cell == d.val
                current_resolution == cell.resolution
                new_resolution == IF parent_resolution = NoneRes
                                  THEN current_resolution - 1
                                  ELSE parent_resolution
                resolution_diff == current_resolution - new_resolution
                shifted_s == Shr(cell.s, 2 * resolution_diff)
            IN  IF ~IsOk(d) THEN d
                ELSE IF new_resolution < 0
                THEN Err("Target resolution cannot be negative")
                ELSE IF new_resolution > current_resolution
                THEN Err("Target resolution must be equal to or less than current resolution")
                ELSE IF new_resolution = current_resolution THEN Ok(index)
                ELSE serialize(A5Cell(cell.origin_id, cell.segment, shifted_s,
                                      new_resolution), checks)
    IN  parent_of(deserialize(index))

\* get_res0_cells asking for the resolution-1 cells
get_res1_cells(checks) == cell_to_children(WORLD_CELL, 1, checks)

get_res0_cells(checks) == cell_to_children(WORLD_CELL, 0, checks)

\* j * a on u64, j a small loop counter
RECURSIVE MulU64(_, _)
MulU64(j, a) ==
    IF j = 0 THEN {}
    ELSE AddU64(IF j % 2 = 1 THEN a ELSE {}, Shl(MulU64(j \div 2, a), 1))

\* The three helpers below are imported by compact.rs from serialization.rs
\* and cell_info.rs; they are modelled from the design text.
\* Spacing between sibling ids: resolutions 0 and 1 count in the top 6 bits,
\* a Hilbert resolution counts in the two lowest bits of its S field.
get_stride(resolution) ==
    IF resolution < FIRST_HILBERT_RESOLUTION THEN {HILBERT_START_BIT}
    ELSE {HILBERT_START_BIT - 2 * (resolution - FIRST_HILBERT_RESOLUTION + 1)}

\* First cell of its sibling group: origin 0 at resolution 0, segment
\* offset 0 at resolution 1, and (cell & (4*stride - 1)) == marker at a
\* Hilbert resolution.
is_first_child(index, resolution) ==
    IF resolution = 0 THEN top6_bits(index) % 12 = 0
    ELSE IF resolution < FIRST_HILBERT_RESOLUTION THEN top6_bits(index) % 5 = 0
    ELSE LET k == CHOOSE b \in get_stride(resolution) : TRUE
         IN  index \cap (0..(k + 1)) = {k - 1}

\* number of cells cell_to_children returns
get_num_children(parent_resolution, child_resolution) ==
    IF child_resolution < parent_resolution THEN 0
    ELSE IF child_resolution = parent_resolution THEN 1
    ELSE LET origins == IF parent_resolution = -1 THEN 12 ELSE 1
             segments == IF parent_resolution < 1 /\ child_resolution >= 1
                         THEN 5 ELSE 1
             diff == child_resolution
                  - max2(parent_resolution, FIRST_HILBERT_RESOLUTION - 1)
         IN  origins * segments * (IF diff <= 0 THEN 1 ELSE Pow4(diff))

\* ---------------------------------------------------------------- compact
RECURSIVE concat(_, _)
concat(parts, k) ==
    IF k > Len(parts) THEN <<>> ELSE parts[k] \o concat(parts, k + 1)

uncompact(cells, target_resolution, checks) ==
    LET resolutions == [i \in 1..Len(cells) |-> get_resolution(cells[i])]
        parts == [i \in 1..Len(cells) |->
                    IF get_num_children(resolutions[i], target_resolution) = 1
                    THEN Ok(<<cells[i]>>)
                    ELSE cell_to_children(cells[i], target_resolution, checks)]
        flatten(all) == IF ~IsOk(all) THEN all ELSE Ok(concat(all.val, 1))
    IN  IF \E i \in 1..Len(cells) : target_resolution - resolutions[i] < 0
        THEN Err("Cannot uncompact cell to lower resolution")
        ELSE flatten(first_failure(parts))

\* sort_unstable on distinct u64 values: ascending numeric order
sort_unstable(S) ==
    LET ranked == {<<Cardinality({y \in S : LessU64(y, x)}) + 1, x>> : x \in S}
    IN  [k \in 1..Cardinality(S) |-> (CHOOSE p \in ranked : p[1] = k)[2]]

SeqToSet(q) == {q[i] : i \in 1..Len(q)}

expected_children(resolution) ==
    IF resolution >= FIRST_HILBERT_RESOLUTION THEN 4
    ELSE IF resolution = 0 THEN 12
    ELSE 5

\* the stride check without the last sibling
has_all_but_last_sibling(cells, i, cell, resolution) ==
    /\ is_first_child(cell, resolution)
    /\ \A j \in 1..(expected_children(resolution) - 2) :
          cells[i + j + 1] = AddU64(cell, MulU64(j, get_stride(resolution)))

\* the stride check of one position of the working list
has_all_siblings(cells, i, cell, resolution) ==
    /\ is_first_child(cell, resolution)
    /\ \A j \in 1..(expected_children(resolution) - 1) :
          cells[i + j + 1] = AddU64(cell, MulU64(j, get_stride(resolution)))

\* ---------------------------------------------------------------- hilbert
\* Flip
YES == -1
NO == 1

Orientations == {"uv", "vu", "uw", "wu", "vw", "wv"}

\* IJ and KJ vectors are pairs <<x, y>>.  The anchors s_to_anchor returns
\* have whole-number coordinates.  The points given to ij_to_s are held in
\* units of 1 / IJ_SCALE, which makes the offsets 0.1 and 0.2 whole numbers;
\* ij_to_s only adds, subtracts, scales by powers of two and compares with
\* 1.0, so every comparison comes out as it does on f64 as long as no
\* compared value is within rounding distance of 1.0.
IJ_SCALE == 10

ij_to_kj(ij) == <<ij[1] + ij[2], ij[2]>>

kj_to_ij(kj) == <<kj[1] - kj[2], kj[2]>>

K_POS == <<1, 0>>
J_POS == <<0, 1>>
K_NEG == <<-1, 0>>
J_NEG == <<0, -1>>
ZERO == <<0, 0>>

quaternary_to_kj(n, flips) ==
    LET pq == IF flips = <<NO, NO>> THEN <<K_POS, J_POS>>
              ELSE IF flips = <<YES, NO>> THEN <<J_NEG, K_NEG>>
              ELSE IF flips = <<NO, YES>> THEN <<J_POS, K_POS>>
              ELSE <<K_NEG, J_NEG>>
        p == pq[1]
        q == pq[2]
    IN  IF n = 0 THEN ZERO
        ELSE IF n = 1 THEN p
        ELSE IF n = 2 THEN <<q[1] + p[1], q[2] + p[2]>>
        ELSE <<q[1] + 2 * p[1], q[2] + 2 * p[2]>>

quaternary_to_flips(n) ==
    IF n = 0 THEN <<NO, NO>>
    ELSE IF n = 1 THEN <<NO, YES>>
    ELSE IF n = 2 THEN <<NO, NO>>
    ELSE <<YES, NO>>

\* flips[0] *= next_flips[0]; flips[1] *= next_flips[1]
times_flips(flips, next_flips) ==
    <<flips[1] * next_flips[1], flips[2] * next_flips[2]>>

FLIP_SHIFT == <<-1, 1>>

\* a pattern is the sequence of its entries; entry k of the array is
\* pattern[k + 1]
reverse_pattern(pattern) ==
    [v \in 1..Len(pattern) |->
        (CHOOSE i \in 1..Len(pattern) : pattern[i] = v - 1) - 1]

PATTERN == <<0, 1, 3, 4, 5, 6, 7, 2>>
PATTERN_FLIPPED == <<0, 1, 2, 7, 3, 4, 5, 6>>
PATTERN_REVERSED == reverse_pattern(PATTERN)
PATTERN_FLIPPED_REVERSED == reverse_pattern(PATTERN_FLIPPED)

\* shift_digits that leaves the child digit as it was
shift_digits_parent_only(digits, i, flips, invert_j, pattern) ==
    IF i = 0 THEN digits
    ELSE
    LET parent_k == digits[i + 1]
        child_k == digits[i]
        f == flips[1] + flips[2]
        second_rule == invert_j # (f = 0)
        needs_shift == IF second_rule THEN parent_k = 1 \/ parent_k = 2
                       ELSE parent_k < 2
        first == IF second_rule THEN parent_k = 1 ELSE parent_k = 0
        src == IF first THEN child_k ELSE child_k + 4
        dst == pattern[src + 1]
    IN  IF ~needs_shift THEN digits
        ELSE [digits EXCEPT
                ![i + 1] = (parent_k + 4 + dst \div 4 - src \div 4) % 4]

\* digits[i + 1] is the array entry digits[i]; the result is the array
\* after the call
shift_digits(digits, i, flips, invert_j, pattern) ==
    IF i = 0 THEN digits
    ELSE
    LET parent_k == digits[i + 1]
        child_k == digits[i]
        f == flips[1] + flips[2]
        second_rule == invert_j # (f = 0)
        needs_shift == IF second_rule THEN parent_k = 1 \/ parent_k = 2
                       ELSE parent_k < 2
        first == IF second_rule THEN parent_k = 1 ELSE parent_k = 0
        src == IF first THEN child_k ELSE child_k + 4
        dst == pattern[src + 1]
    IN  IF ~needs_shift THEN digits
        ELSE [digits EXCEPT
                ![i] = dst % 4,
                ![i + 1] = (parent_k + 4 + dst \div 4 - src \div 4) % 4]

\* while input > 0 || digits.len() < resolution
RECURSIVE quaternary_digits(_, _, _)
quaternary_digits(input, len, resolution) ==
    IF input > 0 \/ len < resolution
    THEN <<input % 4>> \o quaternary_digits(input \div 4, len + 1, resolution)
    ELSE <<>>

\* first loop of s_to_anchor_internal, from index i down to 0
RECURSIVE shift_all_digits(_, _, _, _, _)
shift_all_digits(digits, i, flips, invert_j, pattern) ==
    IF i < 0 THEN digits
    ELSE LET step(shifted) ==
                shift_all_digits(shifted, i - 1,
                    times_flips(flips, quaternary_to_flips(shifted[i + 1])),
                    invert_j, pattern)
         IN  step(shift_digits(digits, i, flips, invert_j, pattern))

\* second loop of s_to_anchor_internal: <<offset in kj, flips>>
RECURSIVE accumulate_offset(_, _, _, _)
accumulate_offset(digits, i, offset, flips) ==
    IF i < 0 THEN <<offset, flips>>
    ELSE LET child_offset == quaternary_to_kj(digits[i + 1], flips)
         IN  accumulate_offset(digits, i - 1,
                 <<2 * offset[1] + child_offset[1],
                   2 * offset[2] + child_offset[2]>>,
                 times_flips(flips, quaternary_to_flips(digits[i + 1])))

Anchor(k, offset, flips) == [k |-> k, offset |-> offset, flips |-> flips]

\* s_to_anchor_internal without the digit rearrangement of its first loop
s_to_anchor_internal_unshifted(s, resolution, invert_j, flip_ij) ==
    LET build(digits) ==
            LET walk(of) ==
                    Anchor(IF Len(digits) = 0 THEN 0 ELSE digits[1],
                           kj_to_ij(of[1]), of[2])
            IN  walk(accumulate_offset(digits, Len(digits) - 1, ZERO,
                                       <<NO, NO>>))
    IN  build(quaternary_digits(s, 0, resolution))

s_to_anchor_internal(s, resolution, invert_j, flip_ij) ==
    LET build(digits) ==
            LET walk(of) ==
                    Anchor(IF Len(digits) = 0 THEN 0 ELSE digits[1],
                           kj_to_ij(of[1]), of[2])
            IN  walk(accumulate_offset(digits, Len(digits) - 1, ZERO,
                                       <<NO, NO>>))
        unshifted(digits) ==
            build(shift_all_digits(digits, Len(digits) - 1, <<NO, NO>>,
                      invert_j,
                      IF flip_ij THEN PATTERN_FLIPPED ELSE PATTERN))
    IN  unshifted(quaternary_digits(s, 0, resolution))

\* s < 4^resolution is required: for a larger s and a reversed orientation
\* the subtraction on u64 overflows
s_to_anchor(s, resolution, orientation) ==
    LET reverse == orientation \in {"vu", "wu", "vw"}
        invert_j == orientation \in {"wv", "vw"}
        flip_ij == orientation \in {"wu", "uw"}
        adjusted_input == IF reverse THEN Pow4(resolution) - s - 1 ELSE s
        flipped(a) ==
            IF ~flip_ij THEN a
            ELSE LET swapped == <<a.offset[2], a.offset[1]>>
                     first == IF a.flips[1] = YES
                              THEN <<swapped[1] + FLIP_SHIFT[1],
                                     swapped[2] + FLIP_SHIFT[2]>>
                              ELSE swapped
                     second == IF a.flips[2] = YES
                               THEN <<first[1] - FLIP_SHIFT[1],
                                      first[2] - FLIP_SHIFT[2]>>
                               ELSE first
                 IN  Anchor(a.k, second, a.flips)
        inverted(a) ==
            IF ~invert_j THEN a
            ELSE Anchor(a.k,
                        <<a.offset[1],
                          Pow2(resolution) - (a.offset[1] + a.offset[2])>>,
                        <<-a.flips[1], a.flips[2]>>)
    IN  inverted(flipped(
            s_to_anchor_internal(adjusted_input, resolution, invert_j, flip_ij)))

\* ij is the offset scaled by 1 / one: the comparisons with 1.0 are
\* comparisons with `one`
ij_to_quaternary(ij, flips, one) ==
    LET u == ij[1]
        v == ij[2]
        a == IF flips[1] = YES THEN -(u + v) ELSE u + v
        b == IF flips[2] = YES THEN -u ELSE u
        c == IF flips[1] = YES THEN -v ELSE v
    IN  IF flips[1] + flips[2] = 0
        THEN IF c < one THEN 0
             ELSE IF b > one THEN 3
             ELSE IF a > one THEN 2
             ELSE 1
        ELSE IF a < one THEN 0
             ELSE IF b > one THEN 3
             ELSE IF c > one THEN 2
             ELSE 1

\* first loop of ij_to_s_internal, from index i down to 0:
\* <<digits, flips>>; input is in units of 1 / IJ_SCALE, pivot in whole units
RECURSIVE locate_digits(_, _, _, _, _)
locate_digits(input, i, pivot, flips, digits) ==
    IF i < 0 THEN <<digits, flips>>
    ELSE
    LET relative_offset == <<input[1] - IJ_SCALE * pivot[1],
                             input[2] - IJ_SCALE * pivot[2]>>
        next(digit) ==
            LET child_offset == kj_to_ij(quaternary_to_kj(digit, flips))
            IN  locate_digits(input, i - 1,
                    <<pivot[1] + child_offset[1] * Pow2(i),
                      pivot[2] + child_offset[2] * Pow2(i)>>,
                    times_flips(flips, quaternary_to_flips(digit)),
                    [digits EXCEPT ![i + 1] = digit])
    IN  next(ij_to_quaternary(relative_offset, flips, IJ_SCALE * Pow2(i)))

\* second loop of ij_to_s_internal, from index i up
RECURSIVE unshift_digits(_, _, _, _, _)
unshift_digits(digits, i, flips, invert_j, pattern) ==
    IF i >= Len(digits) THEN digits
    ELSE LET step(next_flips) ==
                unshift_digits(
                    shift_digits(digits, i, next_flips, invert_j, pattern),
                    i + 1, next_flips, invert_j, pattern)
         IN  step(times_flips(flips, quaternary_to_flips(digits[i + 1])))

\* output += digit * (1 << (2 * i)); the power is not formed for a digit 0,
\* which keeps the numbers small at a deep level
RECURSIVE digits_value(_, _)
digits_value(digits, i) ==
    IF i >= Len(digits) THEN 0
    ELSE (IF digits[i + 1] = 0 THEN 0 ELSE digits[i + 1] * Pow4(i))
            + digits_value(digits, i + 1)

ij_to_s_internal(input, invert_j, flip_ij, resolution) ==
    LET finish(located) ==
            digits_value(
                unshift_digits(located[1], 0, located[2], invert_j,
                    IF flip_ij THEN PATTERN_FLIPPED_REVERSED
                    ELSE PATTERN_REVERSED), 0)
    IN  finish(locate_digits(input, resolution - 1, <<0, 0>>, <<NO, NO>>,
                             [i \in 1..resolution |-> 0]))

ij_to_s(input, resolution, orientation) ==
    LET reverse == orientation \in {"vu", "wu", "vw"}
        invert_j == orientation \in {"wv", "vw"}
        flip_ij == orientation \in {"wu", "uw"}
        ij1 == IF flip_ij THEN <<input[2], input[1]>> ELSE input
        ij2 == IF invert_j
               THEN <<ij1[1],
                      IJ_SCALE * Pow2(resolution) - (ij1[1] + ij1[2])>>
               ELSE ij1
        s == ij_to_s_internal(ij2, invert_j, flip_ij, resolution)
    IN  IF reverse THEN Pow4(resolution) - s - 1 ELSE s

SeqReverse(s) == [i \in 1..Len(s) |-> s[Len(s) + 1 - i]]

\* ----------------------------------------------------------------- floats
\* Binary floating point with round-to-nearest, ties-to-even, as f64 has,
\* but with a significand of MantissaBits bits instead of 53 and no exponent
\* limits.  A number is <<m, e>>, meaning m * 2^e, with m odd or <<0, 0>>.
RECURSIVE bit_length(_)
bit_length(n) == IF n = 0 THEN 0 ELSE 1 + bit_length(n \div 2)

abs_int(n) == IF n < 0 THEN 0 - n ELSE n

RECURSIVE normalize(_, _)
normalize(m, e) ==
    IF m = 0 THEN <<0, 0>>
    ELSE IF m % 2 = 0 THEN normalize(m \div 2, e + 1)
    ELSE <<m, e>>

\* the exact value n * 2^e, rounded to the significand
round_to(n, e) ==
    LET k == bit_length(abs_int(n)) - MantissaBits
        q == abs_int(n) \div Pow2(k)
        r == abs_int(n) % Pow2(k)
        m == IF r > Pow2(k - 1) \/ (r = Pow2(k - 1) /\ q % 2 = 1)
             THEN q + 1 ELSE q
    IN  IF k <= 0 THEN normalize(n, e)
        ELSE normalize(IF n < 0 THEN 0 - m ELSE m, e + k)

min2(a, b) == IF a <= b THEN a ELSE b

f_add(a, b) ==
    round_to(a[1] * Pow2(a[2] - min2(a[2], b[2]))
                + b[1] * Pow2(b[2] - min2(a[2], b[2])),
             min2(a[2], b[2]))

f_neg(a) == <<0 - a[1], a[2]>>

f_sub(a, b) == f_add(a, f_neg(b))

f_mul(a, b) == round_to(a[1] * b[1], a[2] + b[2])

\* n / 2^k as a float
Float(n, k) == round_to(n, 0 - k)

f_zero == <<0, 0>>

\* Face::new(x, y)
Face(x, y) == <<x, y>>

\* --------------------------------------------------------------- pentagon
\* PentagonShape (src/geometry/pentagon.rs): a list of Face vertices.
RECURSIVE signed_area_from(_, _, _)
signed_area_from(vs, i, signed_area) ==
    IF i > Len(vs) THEN signed_area
    ELSE signed_area_from(vs, i + 1,
            f_add(signed_area,
                  f_mul(f_sub(vs[(i % Len(vs)) + 1][1], vs[i][1]),
                        f_add(vs[(i % Len(vs)) + 1][2], vs[i][2]))))

get_area(vs) == signed_area_from(vs, 1, f_zero)

is_winding_correct(vs) == get_area(vs)[1] >= 0

\* PentagonShape::new / from_vertices / TriangleShape::new
new_shape(vs) == IF is_winding_correct(vs) THEN vs ELSE SeqReverse(vs)

scale(vs, s) == [i \in 1..Len(vs) |-> Face(f_mul(vs[i][1], s), f_mul(vs[i][2], s))]

rotate180(vs) == [i \in 1..Len(vs) |-> Face(f_neg(vs[i][1]), f_neg(vs[i][2]))]

reflect_y(vs) ==
    SeqReverse([i \in 1..Len(vs) |-> Face(vs[i][1], f_neg(vs[i][2]))])

translate(vs, translation) ==
    [i \in 1..Len(vs) |-> Face(f_add(vs[i][1], translation[1]),
                               f_add(vs[i][2], translation[2]))]

\* (v1 - v2) x (point - v1) for the edge that leaves vertex i
edge_cross(vs, i, point) ==
    f_sub(f_mul(f_sub(vs[i][1], vs[(i % Len(vs)) + 1][1]),
                f_sub(point[2], vs[i][2])),
          f_mul(f_sub(vs[i][2], vs[(i % Len(vs)) + 1][2]),
                f_sub(point[1], vs[i][1])))

\* 1.0 when no edge has the point on its wrong side, else a negative value
\* (here -1); a panic when the winding is wrong
contains_point(vs, point) ==
    IF ~is_winding_correct(vs) THEN Panic
    ELSE IF \E i \in 1..Len(vs) : edge_cross(vs, i, point)[1] < 0 THEN Ok(-1)
    ELSE Ok(1)

\* triangle(): u, v, w of the quintant triangle (core/pentagon.rs), each
\* coordinate rounded to four significant bits
triangle ==
    <<Face(f_zero, f_zero), Face(Float(5, 3), Float(7, 4)),
      Face(Float(5, 3), Float(0 - 7, 4))>>

\* quintant_rotations(): Mat2 <<m00, m01, m10, m11>> of the rotation by
\* quintant * 2 pi / 5, each entry rounded to four significant bits
quintant_rotations ==
    << <<Float(1, 0), f_zero, f_zero, Float(1, 0)>>,
       <<Float(5, 4), Float(0 - 15, 4), Float(15, 4), Float(5, 4)>>,
       <<Float(0 - 13, 4), Float(0 - 9, 4), Float(9, 4), Float(0 - 13, 4)>>,
       <<Float(0 - 13, 4), Float(9, 4), Float(0 - 9, 4), Float(0 - 13, 4)>>,
       <<Float(5, 4), Float(15, 4), Float(0 - 15, 4), Float(5, 4)>> >>

transform_triangle(vs, matrix) ==
    new_shape([i \in 1..3 |->
        Face(f_add(f_mul(matrix[1], vs[i][1]), f_mul(matrix[2], vs[i][2])),
             f_add(f_mul(matrix[3], vs[i][1]), f_mul(matrix[4], vs[i][2])))])

get_quintant_vertices(quintant) ==
    transform_triangle(new_shape(SubSeq(triangle, 1, 3)),
                       quintant_rotations[quintant + 1])

\* get_pentagon for a resolution-1 cell: the triangle with its first two
\* vertices repeated
quintant_pentagon(quintant) ==
    new_shape(<<get_quintant_vertices(quintant)[1],
                get_quintant_vertices(quintant)[2],
                get_quintant_vertices(quintant)[3],
                get_quintant_vertices(quintant)[1],
                get_quintant_vertices(quintant)[2]>>)

\* ------------------------------------------------------------------- cell
\* lonlat_to_cell and cell_to_boundary (src/core/cell.rs).  The spherical
\* geometry is the environment: a geometry gives, for the sample points of
\* one call, the cell lonlat_to_estimate finds for each point and the value
\* of PentagonShape::contains_point for each (cell, point) pair the call or
\* its caller can ask about.  Point 0 is the query point lonlat.

\* the points of one call: lonlat and the points of the spiral around it
SamplePoints == 0..(MaxSamples - 1)

\* samples: lonlat first, then the spiral, whose point i = 0 has radius 0
\* and so is lonlat again
samples == <<0>> \o [i \in 1..MaxSamples |-> i - 1]

\* contains_point is 1.0 inside the pentagon and negative outside
Distances == {-2, -1, 1}

\* the k-th cell of a resolution: a segment below the first Hilbert
\* resolution, a position on the curve from it on
estimate_cell(k, resolution) ==
    IF resolution < FIRST_HILBERT_RESOLUTION THEN A5Cell(0, k, {}, resolution)
    ELSE A5Cell(0, 0, FromNat(k), resolution)

\* which cell each point is estimated to lie in; cells are numbered in the
\* order the samples meet them
EstimateMaps ==
    {e \in [SamplePoints -> SamplePoints] :
        /\ e[0] = 0
        /\ \A pt \in SamplePoints \ {0} : \E q \in 0..(pt - 1) : e[pt] <= e[q] + 1}

\* the (cell, point) pairs whose containment is looked at: every cell
\* against lonlat, and each point against its own estimate
Probes(e, resolution) ==
    {<<estimate_cell(k, resolution), 0>> : k \in SamplePoints}
        \cup {<<estimate_cell(e[pt], resolution), pt>> : pt \in SamplePoints}

\* below the first Hilbert resolution the estimate is exact
Geometries(resolution) ==
    IF resolution < FIRST_HILBERT_RESOLUTION
    THEN {[estimate |-> [pt \in SamplePoints |-> 0],
           distance |-> [pr \in Probes([pt \in SamplePoints |-> 0], resolution)
                            |-> IF pr[1] = estimate_cell(0, resolution)
                                THEN 1 ELSE -1]]}
    ELSE UNION {{[estimate |-> e, distance |-> d] :
                    d \in [Probes(e, resolution) -> Distances]} :
                e \in EstimateMaps}

lonlat_to_estimate(geo, sample, resolution) ==
    estimate_cell(geo.estimate[sample], resolution)

a5cell_contains_point(geo, cell, point) == geo.distance[<<cell, point>>]

\* cells.sort_by(descending distance) is stable: cells[0] is the first
\* candidate with the largest distance; indexing an empty list panics
closest_candidate(cells, checks) ==
    IF cells = <<>> THEN Panic
    ELSE LET first == CHOOSE i \in 1..Len(cells) :
                        \A j \in 1..Len(cells) :
                            /\ cells[j][2] <= cells[i][2]
                            /\ (cells[j][2] = cells[i][2] => i <= j)
         IN  serialize(cells[first][1], checks)

\* the loop over the samples from position i on
RECURSIVE scan_samples(_, _, _, _, _, _)
scan_samples(geo, resolution, checks, i, estimate_set, cells) ==
    IF i > Len(samples) THEN closest_candidate(cells, checks)
    ELSE LET step(estimate, estimate_key) ==
                 IF ~IsOk(estimate_key) THEN estimate_key
                 ELSE IF estimate_key.val \in estimate_set
                 THEN scan_samples(geo, resolution, checks, i + 1,
                                   estimate_set, cells)
                 ELSE IF a5cell_contains_point(geo, estimate, samples[i]) > 0
                 THEN serialize(estimate, checks)
                 ELSE scan_samples(geo, resolution, checks, i + 1,
                          estimate_set \cup {estimate_key.val},
                          Append(cells,
                              <<estimate,
                                a5cell_contains_point(geo, estimate, samples[i])>>))
         IN  step(lonlat_to_estimate(geo, samples[i], resolution),
                  serialize(lonlat_to_estimate(geo, samples[i], resolution),
                            checks))

lonlat_to_cell(geo, resolution, checks) ==
    IF resolution < FIRST_HILBERT_RESOLUTION
    THEN serialize(lonlat_to_estimate(geo, 0, resolution), checks)
    ELSE scan_samples(geo, resolution, checks, 1, {}, <<>>)

\* a vertex of the face polygon: <<corner, step>> is the point step / segments
\* of the way from a corner of the pentagon to the next one
pentagon_vertices == [i \in 1..5 |-> <<i, 0>>]

\* the placeholder Face::new(0.0, 0.0) get_vertices fills the array with
ORIGIN_VERTEX == <<0, 0>>

\* PentagonShape::split_edges: every corner followed by the interior points
\* of the edge that leaves it
split_edges(vertices, segments) ==
    IF segments <= 1 THEN vertices
    ELSE [k \in 1..(Len(vertices) * segments) |->
            <<vertices[((k - 1) \div segments) + 1][1], (k - 1) % segments>>]

\* PentagonShape::get_vertices: the fixed-size array [Face; 5]
get_vertices(vertices) ==
    [i \in 1..5 |-> IF i <= Len(vertices) THEN vertices[i] ELSE ORIGIN_VERTEX]

\* segments when the options give none
default_segments(resolution) == max2(1, Pow2(max2(6 - resolution, 0)))

\* orientations whose curve runs backwards (s_to_anchor)
reversed_orientation(orientation) == orientation \in {"vu", "wu", "vw"}

\* get_pentagon: the face at resolution 0, the quintant triangle (as five
\* vertices) at resolution 1, else the tile at the anchor of s.  The Hilbert
\* level is cast to usize: below resolution 0 it is at least 2^64 - 2, so
\* 2 * resolution overflows where s_to_anchor reverses the curve, and
\* s_to_anchor_internal pushes digits until there are that many
get_pentagon(cell, checks) ==
    LET orientation == segment_to_quintant(cell.segment, cell.origin_id)[2]
        hilbert_resolution == cell.resolution - FIRST_HILBERT_RESOLUTION + 1
    IN  IF cell.resolution = FIRST_HILBERT_RESOLUTION - 1
        THEN Ok(pentagon_vertices)
        ELSE IF cell.resolution = FIRST_HILBERT_RESOLUTION - 2
        THEN Ok(pentagon_vertices)
        ELSE IF hilbert_resolution < 0
        THEN IF reversed_orientation(orientation) /\ checks THEN Panic
             ELSE Exhausted
        ELSE Ok(pentagon_vertices)

\* unprojection and normalize_longitudes map the list point by point, so a
\* boundary point is named by the vertex it comes from.  A negative segments
\* is cast to a usize of at least 2^63 and split_edges pushes 5 * segments
\* vertices
cell_to_boundary(cell_id, closed_ring, segments, checks) ==
    LET boundary_of(cell_data) ==
            LET n == IF segments = NoneSegments
                     THEN default_segments(cell_data.val.resolution)
                     ELSE segments
                normalized_boundary ==
                    get_vertices(split_edges(pentagon_vertices, n))
                ring == IF closed_ring
                        THEN Append(normalized_boundary, normalized_boundary[1])
                        ELSE normalized_boundary
            IN  IF ~IsOk(cell_data) THEN cell_data
                ELSE IF ~IsOk(get_pentagon(cell_data.val, checks))
                THEN get_pentagon(cell_data.val, checks)
                ELSE IF n < 0 THEN Exhausted
                ELSE Ok(SeqReverse(ring))
    IN  boundary_of(deserialize(cell_id))

\* cell_to_lonlat: the unprojected centre of the cell's pentagon
cell_to_lonlat(cell_id, checks) ==
    LET center_of(cell_data) ==
            IF ~IsOk(cell_data) THEN cell_data
            ELSE IF ~IsOk(get_pentagon(cell_data.val, checks))
            THEN get_pentagon(cell_data.val, checks)
            ELSE Ok(<<"center", cell_data.val>>)
    IN  center_of(deserialize(cell_id))

\* ------------------------------------------------------------- projection
\* DodecahedronProjection (src/projections/dodecahedron.rs).  A cache is a
\* function from its filled slots to the triangles in them.  A triangle is
\* named by what it is computed from; the point of a call enters only
\* through its face triangle index and whether it lies beyond the face edge.
FACE_TRIANGLE_SLOTS == 30
SPHERICAL_TRIANGLE_SLOTS == 240

\* [ret |-> result, face_triangles |-> the cache afterwards]
get_face_triangle(cache, face_triangle_index, reflected, squashed) ==
    LET index == IF reflected
                 THEN face_triangle_index + (IF squashed THEN 20 ELSE 10)
                 ELSE face_triangle_index
        face_triangle ==
            IF reflected
            THEN <<"face", face_triangle_index,
                   IF squashed THEN "squashed" ELSE "reflected">>
            ELSE <<"face", face_triangle_index, "base">>
    IN  IF face_triangle_index > 9
        THEN [ret |-> Err("Face triangle index must be 0-9"),
              face_triangles |-> cache]
        ELSE IF index >= FACE_TRIANGLE_SLOTS
        THEN [ret |-> Err("Face triangle index out of bounds"),
              face_triangles |-> cache]
        ELSE IF index \in DOMAIN cache
        THEN [ret |-> Ok(cache[index]), face_triangles |-> cache]
        ELSE [ret |-> Ok(face_triangle),
              face_triangles |-> (index :> face_triangle) @@ cache]

\* the origin id is checked only here, after the cache lookup
compute_spherical_triangle(faces, face_triangle_index, origin_id, reflected) ==
    LET with_face(f) ==
            [ret |-> IF IsOk(f.ret)
                     THEN Ok(<<"spherical", origin_id, f.ret.val>>)
                     ELSE f.ret,
             face_triangles |-> f.face_triangles]
    IN  IF origin_id >= NUM_ORIGINS
        THEN [ret |-> Err("Invalid origin ID"), face_triangles |-> faces]
        ELSE with_face(get_face_triangle(faces, face_triangle_index,
                                         reflected, TRUE))

\* [ret, face_triangles, spherical_triangles]
get_spherical_triangle(faces, sphericals, face_triangle_index, origin_id, reflected) ==
    LET index == 10 * origin_id + face_triangle_index
                    + (IF reflected THEN 120 ELSE 0)
        stored(c) ==
            [ret |-> c.ret, face_triangles |-> c.face_triangles,
             spherical_triangles |->
                IF IsOk(c.ret) THEN (index :> c.ret.val) @@ sphericals
                ELSE sphericals]
    IN  IF index >= SPHERICAL_TRIANGLE_SLOTS
        THEN [ret |-> Err("Spherical triangle index out of bounds"),
              face_triangles |-> faces, spherical_triangles |-> sphericals]
        ELSE IF index \in DOMAIN sphericals
        THEN [ret |-> Ok(sphericals[index]),
              face_triangles |-> faces, spherical_triangles |-> sphericals]
        ELSE stored(compute_spherical_triangle(faces, face_triangle_index,
                                               origin_id, reflected))

\* the part forward and inverse share: both triangles, then the polyhedral
\* projection between them
project_with(faces, sphericals, face_triangle_index, origin_id, reflect, direction) ==
    LET with_spherical(f, s) ==
            [ret |-> IF IsOk(s.ret)
                     THEN Ok(<<direction, f.ret.val, s.ret.val>>)
                     ELSE s.ret,
             face_triangles |-> s.face_triangles,
             spherical_triangles |-> s.spherical_triangles]
        with_face(f) ==
            IF ~IsOk(f.ret)
            THEN [ret |-> f.ret, face_triangles |-> f.face_triangles,
                  spherical_triangles |-> sphericals]
            ELSE with_spherical(f,
                    get_spherical_triangle(f.face_triangles, sphericals,
                        face_triangle_index, origin_id, reflect))
    IN  with_face(get_face_triangle(faces, face_triangle_index, reflect, FALSE))

forward(faces, sphericals, face_triangle_index, origin_id, reflect) ==
    IF origin_id >= NUM_ORIGINS
    THEN [ret |-> Err("Invalid origin ID"),
          face_triangles |-> faces, spherical_triangles |-> sphericals]
    ELSE project_with(faces, sphericals, face_triangle_index, origin_id,
                      reflect, "forward")

inverse(faces, sphericals, face_triangle_index, origin_id, reflect) ==
    project_with(faces, sphericals, face_triangle_index, origin_id, reflect,
                 "inverse")

\* ---------------------------------------------------------------- threads
\* The public calls as they run on several threads.  A call reads the origin
\* table through the ORIGINS OnceLock and projects with instances it creates
\* itself (`let mut dodecahedron = DodecahedronProjection::new()?`), one
\* after the other.

\* the threads that call the library at the same time
Threads == 1..MaxThreads
\* heap places a projection instance can be allocated at
Instances == 1..MaxThreads
NoInstance == 0
\* a thread outside the library
IdleThread == [pc |-> "idle", call |-> "none", left |-> 0]

\* how many projection instances a call creates, at least: lonlat_to_cell
\* one for the estimate and one for the containment test of a sample
instances_of(call) == IF call = "lonlat_to_cell" THEN 2 ELSE 1

ThreadCalls == {"lonlat_to_cell", "cell_to_lonlat", "cell_to_boundary"}

\* one global instance for every call
shared_instance(held) == 1

\* Box / stack allocation: a place no live instance occupies
new_instance(held) ==
    CHOOSE i \in Instances :
        /\ \A t \in Threads : held[t] # i
        /\ \A j \in Instances : (\A t \in Threads : held[t] # j) => i <= j

\* ----------------------------------------------------------------- inputs
\* number of bits the Hilbert value of a cell at this resolution may use
hilbert_bits_of(resolution) ==
    IF resolution < FIRST_HILBERT_RESOLUTION THEN 0
    ELSE 2 * (resolution - FIRST_HILBERT_RESOLUTION + 1)

\* origin 0..11, segment 0..4, s < 4^H, resolution 0..MAX_RESOLUTION
ValidCell(c) ==
    /\ c.origin_id \in 0..(NUM_ORIGINS - 1)
    /\ c.segment \in 0..(NUM_SEGMENTS - 1)
    /\ c.resolution \in 0..MAX_RESOLUTION
    /\ c.s \subseteq 0..(hilbert_bits_of(c.resolution) - 1)

ResInputs ==
    ((-1 - MaxNegRes)..MaxLowRes)
        \cup {MAX_RESOLUTION - 1, MAX_RESOLUTION, MAX_RESOLUTION + 1}

\* 0, 1, a middle value, 4^H - 1 and (too large) 4^H
SInputs(resolution) ==
    LET hb == hilbert_bits_of(resolution)
    IN  {{}, {0}, 0..(hb - 1), {hb}}
            \cup (IF hb >= 4 THEN {{hb - 1, 0}, {hb - 3}} ELSE {})

CellInputs ==
    UNION {{A5Cell(o, seg, s, r) :
                o \in 0..(NUM_ORIGINS - 1), seg \in 0..(NUM_SEGMENTS - 1),
                s \in SInputs(r)} : r \in ResInputs}

\* arbitrary 64-bit words: any top 6 bits, any of the bits right below them
\* and any of the lowest bits
RawIds ==
    {Shl(FromNat(t), 58) \cup hi \cup lo :
        t \in 0..63,
        hi \in SUBSET ((HILBERT_START_BIT - TailHigh)..(HILBERT_START_BIT - 1)),
        lo \in SUBSET (0..(TailLow - 1))}

\* ids on which the hierarchy operations are tried
HierTop6 == {0, 7, 12, 59, 60}
HierIds == {id \in RawIds : top6_bits(id) \in HierTop6}

\* target resolutions for cell_to_children: those within MaxDiff levels and
\* those the guards reject
ChildTargets(id) ==
    LET base == max2(get_resolution(id), FIRST_HILBERT_RESOLUTION - 1)
    IN  {NoneRes} \cup
        {r \in -2..(MAX_RESOLUTION + 1) :
            r - base <= MaxDiff \/ r - base > 20 \/ r > MAX_RESOLUTION}

ParentTargets == {NoneRes} \cup (-1..MaxLowRes)
                    \cup ((MAX_RESOLUTION - 2)..(MAX_RESOLUTION + 1))

\* the id of a valid cell below MAX_RESOLUTION
CellId(o, seg, s, r) == serialize(A5Cell(o, seg, s, r), TRUE).val

ChildrenOf(id, r) == SeqToSet(cell_to_children(id, r, TRUE).val)

\* cell sets from which the inputs of compact and uncompact are assembled
Res0Cells == ChildrenOf(WORLD_CELL, 0)
Res1Cells == ChildrenOf(WORLD_CELL, 1)
Res2Cells == ChildrenOf(WORLD_CELL, 2)
Pieces ==
    <<  \* the five resolution-1 cells of face 0
        ChildrenOf(CellId(0, 0, {}, 0), 1),
        \* the resolution-0 cell of face 1
        {CellId(1, 0, {}, 0)},
        \* four resolution-2 siblings
        ChildrenOf(CellId(2, 0, {}, 1), 2),
        \* three of four resolution-2 siblings ...
        ChildrenOf(CellId(2, 1, {}, 1), 2) \ {CellId(2, 1, {0, 1}, 2)},
        \* ... and the fourth one as its four resolution-3 children
        ChildrenOf(CellId(2, 1, {0, 1}, 2), 3),
        \* four resolution-2 siblings whose top 6 bits are those of face 3
        ChildrenOf(CellId(0, 2, {}, 1), 2),
        \* the resolution-0 cell of face 3
        {CellId(3, 0, {}, 0)},
        \* four resolution-29 siblings
        ChildrenOf(CellId(11, 4, 0..53, 28), 29),
        \* the five resolution-1 cells of face 1
        ChildrenOf(CellId(1, 0, {}, 0), 1)
    >>

PieceUnion(S) == UNION {Pieces[k] : k \in S}

CompactSets ==
    {Res0Cells, Res1Cells, Res2Cells}
        \cup {PieceUnion(S) : S \in SUBSET (1..Len(Pieces))}

\* a cell list in ascending order, or in descending order with its first
\* element repeated at the end
AsList(S, order) ==
    LET asc == sort_unstable(S)
        n == Len(asc)
    IN  IF order = "asc" \/ n = 0 THEN asc
        ELSE [k \in 1..(n + 1) |-> IF k <= n THEN asc[n + 1 - k] ELSE asc[n]]

Orders == {"asc", "desc"}

\* lists given to uncompact
UncompactSets ==
    {{}, {WORLD_CELL}, {CellId(1, 0, {}, 0)},
     {CellId(1, 0, {}, 0), CellId(2, 1, {}, 1)},
     {CellId(2, 1, {}, 1), CellId(2, 0, {1}, 2)},
     {CellId(2, 0, {1}, 2), CellId(4, 3, {0, 3}, 3)},
     {CellId(11, 4, 0..53, 28)},
     {CellId(11, 4, 0..53, 28), CellId(11, 4, 0..55, 29)},
     {CellId(11, 4, 2..55, 29), CellId(0, 4, {}, 29)}}

UncompactTargets(S) ==
    {r \in -1..(MAX_RESOLUTION + 1) :
        \A c \in S : r - max2(get_resolution(c), FIRST_HILBERT_RESOLUTION - 1)
                        <= MaxDiff}

\* the level the reference anchors are given at
ReferenceLevel == 20

\* a deep level whose 4^H is still a small number
DeepLevel == MAX_RESOLUTION \div 2

\* the values of s the reference anchors and the round trip are listed for
SampleS ==
    {0, 1, 2, 3, 4, 9, 16, 17, 31, 77, 100, 101, 170, 411, 1762, 481952}

\* the values of s explored at a level: all of them at a low level, the
\* samples and their mirror images at a deep one
SValues(resolution) ==
    IF resolution <= MaxHilbert THEN 0..(Pow4(resolution) - 1)
    ELSE IF resolution = DeepLevel
    THEN SampleS \cup {Pow4(resolution) - 1 - s : s \in SampleS}
    ELSE SampleS

\* <<s, resolution, orientation>>
HilbertCalls ==
    {<<s, h, w>> : s \in SampleS, h \in {ReferenceLevel}, w \in {"uv"}}
        \cup UNION {{<<s, h, w>> : s \in SValues(h), w \in Orientations} :
                        h \in (0..MaxHilbert) \cup {DeepLevel}}

\* the anchor's offset moved into the interior of its cell, in units of
\* 1 / IJ_SCALE
nudged(anchor) ==
    LET x == IJ_SCALE * anchor.offset[1]
        y == IJ_SCALE * anchor.offset[2]
    IN  IF anchor.flips = <<NO, NO>> THEN <<x + 1, y + 1>>
        ELSE IF anchor.flips = <<YES, NO>> THEN <<x + 1, y - 2>>
        ELSE IF anchor.flips = <<NO, YES>> THEN <<x - 1, y + 2>>
        ELSE <<x - 1, y - 1>>

\* resolutions asked of lonlat_to_cell: below the Hilbert curve, its first
\* level, and the two deepest
LonlatResolutions ==
    {FIRST_HILBERT_RESOLUTION - 1, FIRST_HILBERT_RESOLUTION,
     MAX_RESOLUTION - 1, MAX_RESOLUTION}

LonlatCalls(r) == {<<geo, r>> : geo \in Geometries(r)}

\* resolutions on both sides of the one where the default stops splitting
BoundaryResolutions == (0..FIRST_HILBERT_RESOLUTION) \cup (5..7) \cup {MAX_RESOLUTION - 1}

\* a cell of each of these resolutions, the world cell, and an id that is
\* not Ok to decode
BoundaryIds ==
    {serialize(A5Cell(1, 0, {}, r), TRUE).val : r \in BoundaryResolutions}
        \cup {WORLD_CELL, Shl(FromNat(63), 58) \cup {57}}

\* segments: none, negative, zero, and 1..MaxSegments
BoundaryCalls ==
    {<<id, closed_ring, segments>> :
        id \in BoundaryIds, closed_ring \in BOOLEAN,
        segments \in (-1..MaxSegments) \cup {NoneSegments}}

\* origin ids given to the projection: the first and last origin, and ids
\* past the table
OriginInputs == {0, NUM_ORIGINS - 1, NUM_ORIGINS, 2 * NUM_ORIGINS - 1, 255}

\* <<origin id, face triangle index, beyond the face edge>>
ProjectionCalls ==
    OriginInputs \X (0..MaxFaceTriangle) \X BOOLEAN

\* a cache with no slot filled; a slot is filled when it is in the domain
EmptyCache == [i \in {} |-> 0]


\* a Face with whole-number coordinates
IntFace(x, y) == Face(Float(x, 0), Float(y, 0))

\* vertex lists handed to PentagonShape::new: a convex pentagon in both
\* directions and five points on one line
PentagonInputs ==
    { <<IntFace(0, 0), IntFace(1, 3), IntFace(3, 4), IntFace(5, 2), IntFace(4, 0)>>,
      <<IntFace(4, 0), IntFace(5, 2), IntFace(3, 4), IntFace(1, 3), IntFace(0, 0)>>,
      <<IntFace(0, 0), IntFace(1, 1), IntFace(2, 2), IntFace(3, 3), IntFace(4, 4)>> }

ScaleInputs == {Float(1, 1), Float(3, 0), Float(0 - 5, 2)}

TranslateInputs ==
    { Face(Float(1, 3), f_zero), Face(f_zero, Float(0 - 1, 3)),
      Face(Float(3, 0), Float(3, 1)) }

PointInputs == {IntFace(3, 2), IntFace(6, 6)}

\* face points tested against resolution-1 cells: one near the middle of
\* each quintant triangle and one far from the face
QuintantPoints ==
    { Face(Float(3, 3), f_zero), Face(Float(1, 3), Float(3, 3)),
      Face(Float(0 - 5, 4), Float(1, 2)), Face(Float(0 - 5, 4), Float(0 - 1, 2)),
      Face(Float(1, 3), Float(0 - 3, 3)), IntFace(3, 3) }

\* ------------------------------------------------------------------ state
VARIABLES
    overflow_checks,  \* build profile: TRUE = overflow checks on (debug)
    op,               \* the last operation called
    arg,              \* its arguments
    ret,              \* its result
    cpc,              \* compact: "idle", "loop", "scan" or "done"
    current_cells,    \* compact: the working list
    result,           \* compact: the list the current pass builds
    ci,               \* compact: position i in current_cells
    changed,          \* compact: the pass replaced a sibling group
    face_triangles,   \* projection instance: filled face-triangle slots
    spherical_triangles, \* projection instance: filled spherical-triangle slots
    vertices,         \* the PentagonShape under transformation
    transforms,       \* transformations applied to it since construction
    tpc,              \* threads: where each thread is in its call
    instance,         \* threads: the projection instance each call holds
    accessed,         \* threads: who touched the caches of each instance
    origins,          \* the ORIGINS OnceLock: "empty", "running" or "set"
    origin_inits      \* how often generate_origins has stored its table

compact_vars == <<cpc, current_cells, result, ci, changed>>
projection_vars == <<face_triangles, spherical_triangles>>
thread_vars == <<tpc, instance, accessed, origins, origin_inits>>
pentagon_vars == <<vertices, transforms>>
library_vars == <<projection_vars, pentagon_vars, thread_vars>>
vars == <<overflow_checks, op, arg, ret, cpc, current_cells, result, ci, changed,
          face_triangles, spherical_triangles, vertices, transforms,
          tpc, instance, accessed, origins, origin_inits>>

Init ==
    /\ overflow_checks \in BOOLEAN
    /\ op = "none"
    /\ arg = <<>>
    /\ ret = Ok({})
    /\ cpc = "idle"
    /\ current_cells = <<>>
    /\ result = <<>>
    /\ ci = 0
    /\ changed = FALSE
    /\ face_triangles = EmptyCache
    /\ spherical_triangles = EmptyCache
    /\ vertices = <<>>
    /\ transforms = 0
    /\ tpc = [t \in Threads |-> IdleThread]
    /\ instance = [t \in Threads |-> NoInstance]
    /\ accessed = [i \in Instances |-> {}]
    /\ origins = "empty"
    /\ origin_inits = 0

\* the caller takes the result; the next call starts from the idle state
Return ==
    /\ op # "none"
    /\ cpc \in {"idle", "done"}
    /\ op' = "none"
    /\ arg' = <<>>
    /\ ret' = Ok({})
    /\ cpc' = "idle"
    /\ current_cells' = <<>>
    /\ result' = <<>>
    /\ ci' = 0
    /\ changed' = FALSE
    /\ UNCHANGED <<overflow_checks, library_vars>>

Serialize ==
    /\ op = "none"
    /\ \E c \in CellInputs :
        /\ op' = "serialize"
        /\ arg' = c
        /\ ret' = serialize(c, overflow_checks)
        /\ UNCHANGED <<overflow_checks, library_vars, compact_vars>>

Deserialize ==
    /\ op = "none"
    /\ \E id \in RawIds :
        /\ op' = "deserialize"
        /\ arg' = id
        /\ ret' = deserialize(id)
        /\ UNCHANGED <<overflow_checks, library_vars, compact_vars>>

CellToChildren ==
    /\ op = "none"
    /\ \E id \in HierIds :
        \E r \in ChildTargets(id) :
            /\ op' = "cell_to_children"
            /\ arg' = <<id, r>>
            /\ ret' = cell_to_children(id, r, overflow_checks)
            /\ UNCHANGED <<overflow_checks, library_vars, compact_vars>>

CellToParent ==
    /\ op = "none"
    /\ \E id \in HierIds :
        \E r \in ParentTargets :
            /\ op' = "cell_to_parent"
            /\ arg' = <<id, r>>
            /\ ret' = cell_to_parent(id, r, overflow_checks)
            /\ UNCHANGED <<overflow_checks, library_vars, compact_vars>>

GetRes0Cells ==
    /\ op = "none"
    /\ op' = "get_res0_cells"
    /\ arg' = <<>>
    /\ ret' = get_res0_cells(overflow_checks)
    /\ UNCHANGED <<overflow_checks, library_vars, compact_vars>>

\* lonlat_to_cell at a resolution below FIRST_HILBERT_RESOLUTION: the
\* estimate (nearest origin, segment of the quintant; any of them for some
\* point) is serialized as it is
LonlatToCellLow ==
    /\ op = "none"
    /\ \E o \in 0..(NUM_ORIGINS - 1), seg \in 0..(NUM_SEGMENTS - 1) :
        \E r \in {q \in ResInputs : q < FIRST_HILBERT_RESOLUTION} :
            /\ op' = "lonlat_to_cell"
            /\ arg' = <<o, seg, r>>
            /\ ret' = serialize(A5Cell(o, seg, {}, r), overflow_checks)
            /\ UNCHANGED <<overflow_checks, library_vars, compact_vars>>

Uncompact ==
    /\ op = "none"
    /\ \E S \in UncompactSets, order \in Orders :
        \E r \in UncompactTargets(S) :
            /\ op' = "uncompact"
            /\ arg' = <<AsList(S, order), r>>
            /\ ret' = uncompact(AsList(S, order), r, overflow_checks)
            /\ UNCHANGED <<overflow_checks, library_vars, compact_vars>>

\* compact: entry, up to the first test of `while changed`
CompactCall ==
    /\ op = "none"
    /\ \E S \in CompactSets, order \in Orders :
        /\ op' = "compact"
        /\ arg' = AsList(S, order)
        /\ IF Len(arg') = 0
           THEN /\ cpc' = "done"
                /\ ret' = Ok(<<>>)
                /\ current_cells' = <<>>
                /\ changed' = FALSE
           ELSE /\ cpc' = "loop"
                /\ ret' = ret
                /\ current_cells' = sort_unstable(SeqToSet(arg'))
                /\ changed' = TRUE
        /\ UNCHANGED <<overflow_checks, library_vars, result, ci>>

\* compact: `while changed`, start of a pass or return
CompactPassStart ==
    /\ cpc = "loop"
    /\ IF changed
       THEN /\ changed' = FALSE
            /\ result' = <<>>
            /\ ci' = 0
            /\ cpc' = "scan"
            /\ ret' = ret
       ELSE /\ cpc' = "done"
            /\ ret' = Ok(current_cells)
            /\ UNCHANGED <<changed, result, ci>>
    /\ UNCHANGED <<overflow_checks, library_vars, op, arg, current_cells>>

\* compact: one iteration of `while i < current_cells.len()`
CompactScanStep ==
    /\ cpc = "scan"
    /\ ci < Len(current_cells)
    /\ LET cell == current_cells[ci + 1]
           resolution == get_resolution(cell)
           expected == expected_children(resolution)
           group == /\ resolution >= 0
                    /\ ci + expected <= Len(current_cells)
                    /\ has_all_siblings(current_cells, ci, cell, resolution)
           parent == cell_to_parent(cell, NoneRes, overflow_checks)
       IN  IF group
           THEN IF IsOk(parent)
                THEN /\ result' = Append(result, parent.val)
                     /\ ci' = ci + expected
                     /\ changed' = TRUE
                     /\ UNCHANGED <<cpc, ret>>
                ELSE /\ cpc' = "done"
                     /\ ret' = parent
                     /\ UNCHANGED <<result, ci, changed>>
           ELSE /\ result' = Append(result, cell)
                /\ ci' = ci + 1
                /\ UNCHANGED <<cpc, ret, changed>>
    /\ UNCHANGED <<overflow_checks, library_vars, op, arg, current_cells>>

\* compact: end of a pass, `current_cells = result`
CompactPassEnd ==
    /\ cpc = "scan"
    /\ ci >= Len(current_cells)
    /\ current_cells' = result
    /\ cpc' = "loop"
    /\ UNCHANGED <<overflow_checks, library_vars, op, arg, ret, result, ci, changed>>

Next ==
    \/ Serialize
    \/ Deserialize
    \/ CellToChildren
    \/ CellToParent
    \/ GetRes0Cells
    \/ LonlatToCellLow
    \/ Return

Spec == Init /\ [][Next]_vars

CompactNext ==
    \/ Uncompact
    \/ CompactCall
    \/ CompactPassStart
    \/ CompactScanStep
    \/ CompactPassEnd
    \/ Return

CompactSpec == Init /\ [][CompactNext]_vars

SToAnchor ==
    /\ op = "none"
    /\ \E call \in HilbertCalls :
        /\ op' = "s_to_anchor"
        /\ arg' = call
        /\ ret' = s_to_anchor(call[1], call[2], call[3])
        /\ UNCHANGED <<overflow_checks, library_vars, compact_vars>>

\* the caller looks the anchor it was given up again, at a point inside the
\* anchor's cell
IjToS ==
    /\ op = "s_to_anchor"
    /\ op' = "ij_to_s"
    /\ arg' = <<nudged(ret), arg[2], arg[3]>>
    /\ ret' = ij_to_s(nudged(ret), arg[2], arg[3])
    /\ UNCHANGED <<overflow_checks, library_vars, compact_vars>>

HilbertNext ==
    \/ SToAnchor
    \/ IjToS
    \/ Return

HilbertSpec == Init /\ [][HilbertNext]_vars

LonlatToCell ==
    /\ op = "none"
    /\ \E r \in LonlatResolutions : \E call \in LonlatCalls(r) :
        /\ op' = "lonlat_to_cell"
        /\ arg' = call
        /\ ret' = lonlat_to_cell(call[1], call[2], overflow_checks)
        /\ UNCHANGED <<overflow_checks, library_vars, compact_vars>>

CellToBoundary ==
    /\ op = "none"
    /\ \E call \in BoundaryCalls :
        /\ op' = "cell_to_boundary"
        /\ arg' = call
        /\ ret' = cell_to_boundary(call[1], call[2], call[3], overflow_checks)
        /\ UNCHANGED <<overflow_checks, library_vars, compact_vars>>

CellToLonlat ==
    /\ op = "none"
    /\ \E id \in BoundaryIds :
        /\ op' = "cell_to_lonlat"
        /\ arg' = <<id>>
        /\ ret' = cell_to_lonlat(id, overflow_checks)
        /\ UNCHANGED <<overflow_checks, library_vars, compact_vars>>

\* a5cell_contains_point for a resolution-1 cell of the given quintant and
\* a point already projected onto the face
QuintantContainsPoint ==
    /\ op = "none"
    /\ \E quintant \in 0..4, point \in QuintantPoints :
        /\ op' = "a5cell_contains_point"
        /\ arg' = <<quintant, point>>
        /\ ret' = contains_point(quintant_pentagon(quintant), point)
    /\ UNCHANGED <<overflow_checks, compact_vars, library_vars>>

CellNext ==
    \/ LonlatToCell
    \/ CellToBoundary
    \/ CellToLonlat
    \/ QuintantContainsPoint
    \/ Return

CellSpec == Init /\ [][CellNext]_vars

\* DodecahedronProjection::new(): an instance with empty caches
NewProjection ==
    /\ op = "none"
    /\ op' = "new"
    /\ arg' = <<>>
    /\ ret' = Ok({})
    /\ face_triangles' = EmptyCache
    /\ spherical_triangles' = EmptyCache
    /\ UNCHANGED <<overflow_checks, compact_vars, pentagon_vars, thread_vars>>

Forward ==
    /\ op = "none"
    /\ \E call \in ProjectionCalls :
        LET done == forward(face_triangles, spherical_triangles,
                            call[2], call[1], call[3])
        IN  /\ op' = "forward"
            /\ arg' = call
            /\ ret' = done.ret
            /\ face_triangles' = done.face_triangles
            /\ spherical_triangles' = done.spherical_triangles
    /\ UNCHANGED <<overflow_checks, compact_vars, pentagon_vars, thread_vars>>

Inverse ==
    /\ op = "none"
    /\ \E call \in ProjectionCalls :
        LET done == inverse(face_triangles, spherical_triangles,
                            call[2], call[1], call[3])
        IN  /\ op' = "inverse"
            /\ arg' = call
            /\ ret' = done.ret
            /\ face_triangles' = done.face_triangles
            /\ spherical_triangles' = done.spherical_triangles
    /\ UNCHANGED <<overflow_checks, compact_vars, pentagon_vars, thread_vars>>

ProjectionNext ==
    \/ NewProjection
    \/ Forward
    \/ Inverse
    \/ Return

ProjectionSpec == Init /\ [][ProjectionNext]_vars

\* a thread enters one of the public calls
ThreadCall(t) ==
    /\ tpc[t].pc = "idle"
    /\ \E call \in ThreadCalls :
        tpc' = [tpc EXCEPT ![t] = [pc |-> "origins", call |-> call,
                                   left |-> instances_of(call)]]
    /\ UNCHANGED <<overflow_checks, op, arg, ret, compact_vars,
                   projection_vars, pentagon_vars, instance, accessed, origins,
                   origin_inits>>

\* get_origins(): ORIGINS.get_or_init(generate_origins).  The first thread
\* runs the initialiser, a thread that arrives meanwhile waits
ThreadGetOrigins(t) ==
    /\ tpc[t].pc = "origins"
    /\ origins # "running"
    /\ IF origins = "empty"
       THEN /\ origins' = "running"
            /\ tpc' = [tpc EXCEPT ![t].pc = "init"]
       ELSE /\ origins' = origins
            /\ tpc' = [tpc EXCEPT ![t].pc = "new"]
    /\ UNCHANGED <<overflow_checks, op, arg, ret, compact_vars,
                   projection_vars, pentagon_vars, instance, accessed,
                   origin_inits>>

\* generate_origins returns and the OnceLock stores the table
ThreadInitOrigins(t) ==
    /\ tpc[t].pc = "init"
    /\ origins' = "set"
    /\ origin_inits' = origin_inits + 1
    /\ tpc' = [tpc EXCEPT ![t].pc = "new"]
    /\ UNCHANGED <<overflow_checks, op, arg, ret, compact_vars,
                   projection_vars, pentagon_vars, instance, accessed>>

\* DodecahedronProjection::new() in the call's own frame
ThreadNewInstance(t) ==
    /\ tpc[t].pc = "new"
    /\ instance' = [instance EXCEPT ![t] = new_instance(instance)]
    /\ accessed' = [accessed EXCEPT ![new_instance(instance)] = {}]
    /\ tpc' = [tpc EXCEPT ![t].pc = "project"]
    /\ UNCHANGED <<overflow_checks, op, arg, ret, compact_vars,
                   projection_vars, pentagon_vars, origins, origin_inits>>

\* forward or inverse on the instance: its cache slots are read and written
ThreadProject(t) ==
    /\ tpc[t].pc = "project"
    /\ accessed' = [accessed EXCEPT ![instance[t]] = @ \cup {t}]
    /\ tpc' = [tpc EXCEPT ![t].pc = "drop"]
    /\ UNCHANGED <<overflow_checks, op, arg, ret, compact_vars,
                   projection_vars, pentagon_vars, instance, origins, origin_inits>>

\* the instance goes out of scope; the call creates the next one or returns
ThreadDrop(t) ==
    /\ tpc[t].pc = "drop"
    /\ instance' = [instance EXCEPT ![t] = NoInstance]
    /\ tpc' = [tpc EXCEPT ![t] =
                  IF tpc[t].left > 1
                  THEN [pc |-> "new", call |-> tpc[t].call,
                        left |-> tpc[t].left - 1]
                  ELSE IdleThread]
    /\ UNCHANGED <<overflow_checks, op, arg, ret, compact_vars,
                   projection_vars, pentagon_vars, accessed, origins, origin_inits>>

ThreadNext ==
    \E t \in Threads :
        \/ ThreadCall(t)
        \/ ThreadGetOrigins(t)
        \/ ThreadInitOrigins(t)
        \/ ThreadNewInstance(t)
        \/ ThreadProject(t)
        \/ ThreadDrop(t)

ThreadSpec == Init /\ [][ThreadNext]_vars

\* PentagonShape::new
NewPentagon ==
    /\ op = "none"
    /\ \E vs \in PentagonInputs :
        /\ op' = "new"
        /\ arg' = vs
        /\ vertices' = new_shape(vs)
    /\ ret' = Ok({})
    /\ transforms' = 0
    /\ UNCHANGED <<overflow_checks, compact_vars, projection_vars, thread_vars>>

Scale ==
    /\ op = "none"
    /\ vertices # <<>>
    /\ transforms < MaxTransforms
    /\ \E s \in ScaleInputs :
        /\ op' = "scale"
        /\ arg' = <<s>>
        /\ vertices' = scale(vertices, s)
    /\ ret' = Ok({})
    /\ transforms' = transforms + 1
    /\ UNCHANGED <<overflow_checks, compact_vars, projection_vars, thread_vars>>

Rotate180 ==
    /\ op = "none"
    /\ vertices # <<>>
    /\ transforms < MaxTransforms
    /\ op' = "rotate180"
    /\ arg' = <<>>
    /\ vertices' = rotate180(vertices)
    /\ ret' = Ok({})
    /\ transforms' = transforms + 1
    /\ UNCHANGED <<overflow_checks, compact_vars, projection_vars, thread_vars>>

ReflectY ==
    /\ op = "none"
    /\ vertices # <<>>
    /\ transforms < MaxTransforms
    /\ op' = "reflect_y"
    /\ arg' = <<>>
    /\ vertices' = reflect_y(vertices)
    /\ ret' = Ok({})
    /\ transforms' = transforms + 1
    /\ UNCHANGED <<overflow_checks, compact_vars, projection_vars, thread_vars>>

Translate ==
    /\ op = "none"
    /\ vertices # <<>>
    /\ transforms < MaxTransforms
    /\ \E translation \in TranslateInputs :
        /\ op' = "translate"
        /\ arg' = <<translation>>
        /\ vertices' = translate(vertices, translation)
    /\ ret' = Ok({})
    /\ transforms' = transforms + 1
    /\ UNCHANGED <<overflow_checks, compact_vars, projection_vars, thread_vars>>

ContainsPoint ==
    /\ op = "none"
    /\ vertices # <<>>
    /\ \E point \in PointInputs :
        /\ op' = "contains_point"
        /\ arg' = <<point>>
        /\ ret' = contains_point(vertices, point)
    /\ UNCHANGED <<overflow_checks, compact_vars, library_vars>>

PentagonNext ==
    \/ NewPentagon
    \/ Scale
    \/ Rotate180
    \/ ReflectY
    \/ Translate
    \/ ContainsPoint
    \/ Return

PentagonSpec == Init /\ [][PentagonNext]_vars

\* quintant_to_segment(quintant, origin) for any origin and quintant
QuintantToSegment ==
    /\ op = "none"
    /\ \E origin_id \in 0..(NUM_ORIGINS - 1), quintant \in 0..4 :
        /\ op' = "quintant_to_segment"
        /\ arg' = <<quintant, origin_id>>
        /\ ret' = Ok(quintant_to_segment(quintant, origin_id))
    /\ UNCHANGED <<overflow_checks, compact_vars, library_vars>>

\* segment_to_quintant on the segment just returned, same origin
SegmentToQuintant ==
    /\ op = "quintant_to_segment"
    /\ op' = "segment_to_quintant"
    /\ arg' = <<ret.val[1], arg[2]>>
    /\ ret' = Ok(segment_to_quintant(ret.val[1], arg[2]))
    /\ UNCHANGED <<overflow_checks, compact_vars, library_vars>>

OriginNext ==
    \/ QuintantToSegment
    \/ SegmentToQuintant
    \/ Return

OriginSpec == Init /\ [][OriginNext]_vars

\* ----------------------------------------------------------------- claims
\* a well-formed id: decoding and re-encoding gives it back
ValidId(c) ==
    LET d == deserialize(c)
    IN  /\ IsOk(d)
        /\ LET e == serialize(d.val, FALSE) IN IsOk(e) /\ e.val = c

\* C1: every id that serialize produces from a valid cell of resolution
\* r >= 0 deserializes, re-serializes to the same id, and has resolution r.
C1_RoundTrip ==
    (op = "serialize" /\ ValidCell(arg) /\ IsOk(ret)) =>
        LET d == deserialize(ret.val)
        IN  /\ IsOk(d)
            /\ LET e == serialize(d.val, overflow_checks)
               IN  /\ IsOk(e)
                   /\ e.val = ret.val
                   /\ get_resolution(e.val) = arg.resolution

\* C2: when cell_to_children(c, r') succeeds for a valid id c of resolution
\* r >= 0 and r' >= r, every child has resolution r' and parent c at r.
C2_ChildrenParent ==
    (/\ op = "cell_to_children"
     /\ IsOk(ret)
     /\ ValidId(arg[1])
     /\ get_resolution(arg[1]) >= 0) =>
        LET r == get_resolution(arg[1])
            target == IF arg[2] = NoneRes THEN r + 1 ELSE arg[2]
        IN  \A i \in 1..Len(ret.val) :
                /\ get_resolution(ret.val[i]) = target
                /\ LET p == cell_to_parent(ret.val[i], r, overflow_checks)
                   IN  IsOk(p) /\ p.val = arg[1]

\* all cells of a non-empty list are valid ids of one resolution >= 0
SameResolution(cells) ==
    /\ Len(cells) > 0
    /\ get_resolution(cells[1]) >= 0
    /\ \A i \in 1..Len(cells) :
          ValidId(cells[i]) /\ get_resolution(cells[i]) = get_resolution(cells[1])

\* C3: for cells that are all at one resolution r, compact succeeds and
\* uncompact of its result to r gives back the same set of cells.
C3_CompactRoundTrip ==
    (op = "compact" /\ cpc = "done" /\ SameResolution(arg)) =>
        /\ IsOk(ret)
        /\ LET u == uncompact(ret.val, get_resolution(arg[1]), overflow_checks)
           IN  IsOk(u) /\ SeqToSet(u.val) = SeqToSet(arg)

\* C4: compact of the 60 resolution-1 cells succeeds with cells of
\* resolution 0 or lower only, and uncompact to resolution 1 restores them.
C4_CompactWorld ==
    (op = "compact" /\ cpc = "done" /\ SeqToSet(arg) = Res1Cells) =>
        /\ IsOk(ret)
        /\ \A i \in 1..Len(ret.val) : get_resolution(ret.val[i]) <= 0
        /\ LET u == uncompact(ret.val, 1, overflow_checks)
           IN  IsOk(u) /\ SeqToSet(u.val) = Res1Cells

\* a is a proper ancestor of b
IsAncestor(a, b) ==
    LET ra == get_resolution(a)
    IN  /\ ra < get_resolution(b)
        /\ \/ ra = -1
           \/ LET p == cell_to_parent(b, ra, FALSE) IN IsOk(p) /\ p.val = a

NonOverlapping(S) ==
    /\ \A c \in S : ValidId(c)
    /\ \A a \in S, b \in S : ~IsAncestor(a, b)

\* the children of the parent of c
SiblingGroup(c) ==
    LET r == get_resolution(c)
    IN  IF r = 0 THEN Res0Cells
        ELSE ChildrenOf(cell_to_parent(c, r - 1, FALSE).val, r)

\* C5: the result of compact on valid, pairwise non-overlapping cells holds
\* no complete sibling group (12 at resolution 0, 5 at 1, 4 above).
C5_NoCompleteGroup ==
    (/\ op = "compact"
     /\ cpc = "done"
     /\ IsOk(ret)
     /\ NonOverlapping(SeqToSet(arg))) =>
        \A c \in SeqToSet(ret.val) :
            get_resolution(c) >= 0 => ~(SiblingGroup(c) \subseteq SeqToSet(ret.val))

\* C6: uncompact fails exactly when some input cell is finer than the target;
\* otherwise every returned id has the target resolution and the output is,
\* in input order, the children of each input cell.
C6_Uncompact ==
    (op = "uncompact" /\ \A i \in 1..Len(arg[1]) : ValidId(arg[1][i])) =>
        LET cells == arg[1]
            target == arg[2]
            finer == \E i \in 1..Len(cells) : get_resolution(cells[i]) > target
        IN  /\ IsErr(ret) <=> finer
            /\ ~finer =>
                /\ IsOk(ret)
                /\ \A k \in 1..Len(ret.val) : get_resolution(ret.val[k]) = target
                /\ ret.val = concat([i \in 1..Len(cells) |->
                      IF get_resolution(cells[i]) = target THEN <<cells[i]>>
                      ELSE cell_to_children(cells[i], target, overflow_checks).val], 1)

\* C7: the id of a valid cell holds origin (r = 0) or 5*origin + segment
\* offset in bits 63..58, s in the 2H bits below bit 58, one marker bit
\* right below (bit 57 - r, or 59 - 2r from r = 2) and zeros below the
\* marker; its resolution reads r.
C7_Layout ==
    (op = "serialize" /\ ValidCell(arg)) =>
        LET r == arg.resolution
            hb == hilbert_bits_of(r)
            m == IF r < FIRST_HILBERT_RESOLUTION THEN 57 - r ELSE 59 - 2 * r
            offset == (arg.segment + 5 - first_quintant(arg.origin_id)) % 5
        IN  /\ IsOk(ret)
            /\ top6_bits(ret.val) =
                  (IF r = 0 THEN arg.origin_id ELSE 5 * arg.origin_id + offset)
            /\ Shr(ret.val \cap ((58 - hb)..57), 58 - hb) = arg.s
            /\ m \in ret.val
            /\ ret.val \cap (0..(m - 1)) = {}
            /\ get_resolution(ret.val) = r

\* C8: resolution MAX_RESOLUTION is encodable: serialize of a valid
\* resolution-30 cell returns an id of resolution 30, and a resolution-29
\* cell has four resolution-30 children.
C8_MaxResolution ==
    /\ (op = "serialize" /\ ValidCell(arg) /\ arg.resolution = MAX_RESOLUTION) =>
          IsOk(ret) /\ get_resolution(ret.val) = MAX_RESOLUTION
    /\ (/\ op = "cell_to_children"
        /\ ValidId(arg[1])
        /\ get_resolution(arg[1]) = MAX_RESOLUTION - 1
        /\ arg[2] = MAX_RESOLUTION) =>
          /\ IsOk(ret)
          /\ Len(ret.val) = 4
          /\ \A i \in 1..4 : get_resolution(ret.val[i]) = MAX_RESOLUTION

\* C9: serialize (also through lonlat_to_cell) returns an error for every
\* resolution below -1 or above 30; cell_to_parent to a finer and
\* cell_to_children to a coarser resolution return an error.
C9_InvalidResolution ==
    /\ (op = "serialize"
        /\ (arg.resolution < -1 \/ arg.resolution > MAX_RESOLUTION)) =>
          IsErr(ret)
    /\ (op = "lonlat_to_cell" /\ (arg[3] < -1 \/ arg[3] > MAX_RESOLUTION)) =>
          IsErr(ret)
    /\ (op = "cell_to_parent" /\ arg[2] # NoneRes
        /\ arg[2] > get_resolution(arg[1])) => IsErr(ret)
    /\ (op = "cell_to_children" /\ arg[2] # NoneRes
        /\ arg[2] < get_resolution(arg[1])) => IsErr(ret)

\* C10: deserialize fails exactly on the ids of resolution >= 0 whose top 6
\* bits give an origin >= 12; on every other 64-bit word it returns a cell
\* with origin < 12, segment < 5, s < 4^H and resolution in -1..30.
C10_Deserialize ==
    op = "deserialize" =>
        LET r == get_resolution(arg)
            t == top6_bits(arg)
            bad == r >= 0 /\ (IF r = 0 THEN t >= 12 ELSE t >= 60)
        IN  /\ IsErr(ret) <=> bad
            /\ ~bad =>
                /\ IsOk(ret)
                /\ ret.val.origin_id \in 0..11
                /\ ret.val.segment \in 0..4
                /\ ret.val.resolution \in -1..MAX_RESOLUTION
                /\ ret.val.s \subseteq
                      0..(hilbert_bits_of(ret.val.resolution) - 1)

\* an id of a Hilbert resolution with top 6 bits 60..63 was rejected
C10_Witness ==
    /\ op = "deserialize"
    /\ IsErr(ret)
    /\ get_resolution(arg) >= FIRST_HILBERT_RESOLUTION
    /\ top6_bits(arg) >= 60

\* C11: resolution -1 is the single value 0: get_resolution gives -1 for the
\* id 0 and for no other 64-bit id, so only 0 decodes as the world cell.
C11_WorldOnly ==
    op = "deserialize" =>
        /\ get_resolution(arg) = -1 <=> arg = WORLD_CELL
        /\ (IsOk(ret) /\ ret.val.resolution = -1) => arg = WORLD_CELL

HexId(hi, lo) == Shl(FromNat(16 * hi + lo), 56)

ClaimedChildren(r, t) ==
    IF r = -1 THEN (IF t = 0 THEN 12 ELSE 60 * 4^(t - 1))
    ELSE IF r = 0 THEN 5 * 4^(t - 1)
    ELSE 4^(t - r)

\* the cases C14 speaks of: the world cell with t >= 0, a resolution-0 cell
\* with t >= 1, a finer cell with t >= r
ChildrenCase(r, t) ==
    /\ t <= MAX_RESOLUTION
    /\ IF r = -1 THEN t >= 0 ELSE IF r = 0 THEN t >= 1 ELSE t >= r

C15_IjToSInverse ==
    [][(op = "s_to_anchor" /\ op' = "ij_to_s") => ret' = arg[1]]_vars

\* the round trip was made at the deep level in a reversed, inverted
\* orientation and gave back a sample s
C15_Witness ==
    /\ op = "ij_to_s"
    /\ arg[2] = DeepLevel
    /\ arg[3] = "vw"
    /\ ret = 1762

\* C16: for every level and orientation, distinct s have distinct anchors
\* (offset and flips).
C16_AnchorsDistinct ==
    op = "s_to_anchor" =>
        \A s \in SValues(arg[2]) \ {arg[1]} :
            LET other == s_to_anchor(s, arg[2], arg[3])
            IN  ~(other.offset = ret.offset /\ other.flips = ret.flips)

\* an anchor that shares its offset with the anchor of another s
C16_Witness ==
    /\ op = "s_to_anchor"
    /\ arg[2] = MaxHilbert
    /\ \E s \in SValues(arg[2]) \ {arg[1]} :
            s_to_anchor(s, arg[2], arg[3]).offset = ret.offset

\* the reference anchors: s |-> <<offset, flips>>
ReferenceAnchors ==
    {<<0, <<0, 0>>, <<NO, NO>>>>, <<9, <<3, 1>>, <<YES, YES>>>>,
     <<16, <<2, 2>>, <<NO, NO>>>>, <<17, <<3, 2>>, <<NO, YES>>>>,
     <<31, <<1, 3>>, <<YES, NO>>>>, <<77, <<7, 5>>, <<NO, NO>>>>,
     <<100, <<3, 7>>, <<YES, YES>>>>, <<101, <<2, 7>>, <<YES, NO>>>>,
     <<170, <<10, 1>>, <<NO, NO>>>>, <<411, <<7, 13>>, <<YES, NO>>>>,
     <<1762, <<7, 31>>, <<YES, NO>>>>,
     <<481952, <<96, 356>>, <<YES, YES>>>>}

\* C17: s_to_anchor(s, 20, UV) returns the reference offset and flips for
\* each listed s.
C17_ReferenceAnchors ==
    (op = "s_to_anchor" /\ arg[2] = ReferenceLevel /\ arg[3] = "uv") =>
        \A a \in ReferenceAnchors :
            a[1] = arg[1] => (ret.offset = a[2] /\ ret.flips = a[3])

\* the anchor of the largest listed s was computed
C17_Witness ==
    /\ op = "s_to_anchor"
    /\ arg = <<481952, ReferenceLevel, "uv">>
    /\ ret.offset = <<96, 356>>

\* the search of lonlat_to_cell stops on a containment hit: some point is
\* inside its estimate, and is the first sample with that estimate
StopsOnHit(geo, resolution) ==
    /\ resolution >= FIRST_HILBERT_RESOLUTION
    /\ \E pt \in SamplePoints :
        /\ a5cell_contains_point(geo,
               lonlat_to_estimate(geo, pt, resolution), pt) > 0
        /\ \A q \in 0..(pt - 1) : geo.estimate[q] # geo.estimate[pt]

\* C18: for every resolution 1..29 the cell lonlat_to_cell returns contains
\* the query point itself (a5cell_contains_point of the decoded cell and
\* lonlat is not negative); in particular when the search stops on a
\* containment hit, the point found inside the returned cell is lonlat.
C18_ContainsQuery ==
    (/\ op = "lonlat_to_cell"
     /\ arg[2] \in 1..(MAX_RESOLUTION - 1)
     /\ IsOk(ret)
     /\ StopsOnHit(arg[1], arg[2])) =>
        /\ IsOk(deserialize(ret.val))
        /\ a5cell_contains_point(arg[1], deserialize(ret.val).val, 0) >= 0

\* the distinct candidates of a call: the points that are the first sample
\* of their estimate
Candidates(geo) ==
    {pt \in SamplePoints : \A q \in 0..(pt - 1) : geo.estimate[q] # geo.estimate[pt]}

\* the distance recorded for a candidate
CandidateDistance(geo, pt, resolution) ==
    a5cell_contains_point(geo, lonlat_to_estimate(geo, pt, resolution), pt)

\* C19: when no sampled candidate reports containment, lonlat_to_cell
\* returns Ok with the candidate whose negative distance is closest to zero
\* among all distinct candidates; it never fails or indexes an empty list.
C19_FallbackClosest ==
    (/\ op = "lonlat_to_cell"
     /\ arg[2] >= FIRST_HILBERT_RESOLUTION
     /\ ~StopsOnHit(arg[1], arg[2])) =>
        /\ IsOk(ret)
        /\ \E pt \in Candidates(arg[1]) :
            /\ ret = serialize(lonlat_to_estimate(arg[1], pt, arg[2]),
                               overflow_checks)
            /\ \A q \in Candidates(arg[1]) :
                    CandidateDistance(arg[1], q, arg[2])
                        <= CandidateDistance(arg[1], pt, arg[2])

\* C19 for the resolutions serialize encodes without overflow
C19_FallbackClosestBelowMax ==
    (op = "lonlat_to_cell" /\ arg[2] < MAX_RESOLUTION) => C19_FallbackClosest

\* the number of segments the claim counts with: the one asked for, else
\* max(1, 2^max(0, 6 - resolution))
ClaimedSegments(cell_id, segments) ==
    IF segments = NoneSegments
    THEN max2(1, 2^(max2(0, 6 - get_resolution(cell_id))))
    ELSE segments

\* C20: for a cell of resolution >= 0, cell_to_boundary with n segments
\* returns 5 n points for an open ring and 5 n + 1 points, the last equal to
\* the first, for a closed ring; n defaults to max(1, 2^max(0, 6 - r)).
C20_BoundaryPoints ==
    (/\ op = "cell_to_boundary"
     /\ IsOk(deserialize(arg[1]))
     /\ get_resolution(arg[1]) >= 0
     /\ (arg[3] = NoneSegments \/ arg[3] >= 1)) =>
        /\ IsOk(ret)
        /\ Len(ret.val) = 5 * ClaimedSegments(arg[1], arg[3])
                            + (IF arg[2] THEN 1 ELSE 0)
        /\ (arg[2] => ret.val[Len(ret.val)] = ret.val[1])

\* C20 for boundaries whose edges are not split
C20_BoundaryPointsUnsplit ==
    (op = "cell_to_boundary" /\ ClaimedSegments(arg[1], arg[3]) = 1) =>
        C20_BoundaryPoints

\* C21: cell_to_lonlat and cell_to_boundary end with Ok or Err for every
\* 64-bit id, the world cell included, and for every segments value, zero
\* and negative included: no panic, no unbounded loop, no memory exhaustion.
C21_Terminates ==
    op \in {"cell_to_lonlat", "cell_to_boundary"} => (IsOk(ret) \/ IsErr(ret))

\* C22: forward and inverse return an error for every origin id >= 12,
\* whatever earlier calls have put into the triangle caches.
C22_InvalidOriginErr ==
    (op \in {"forward", "inverse"} /\ arg[1] >= NUM_ORIGINS) => IsErr(ret)

\* C23: under any interleaving of concurrent lonlat_to_cell, cell_to_lonlat
\* and cell_to_boundary calls, the caches of a projection instance are
\* touched by one thread only, and the origin table is initialised exactly
\* once: never a second time, and before any call goes on to project.
C23_NoSharedInstance ==
    /\ \A i \in Instances : Cardinality(accessed[i]) <= 1
    /\ \A t1, t2 \in Threads :
            (t1 # t2 /\ instance[t1] # NoInstance) => instance[t1] # instance[t2]
    /\ origin_inits <= 1
    /\ (origins = "set") = (origin_inits = 1)
    /\ \A t \in Threads :
            tpc[t].pc \in {"new", "project", "drop"} => origins = "set"

\* two threads are projecting at the same time, each on its own instance,
\* after one of them initialised the origin table
C23_Witness ==
    /\ \A t \in Threads : tpc[t].pc = "drop"
    /\ \A t \in Threads : accessed[instance[t]] = {t}
    /\ origin_inits = 1

\* C24: a PentagonShape has get_area() >= 0 right after construction and
\* after every scale, rotate180, reflect_y and translate, so contains_point
\* never reaches its wrong-winding panic.
C24_WindingCorrect ==
    /\ vertices # <<>> => is_winding_correct(vertices)
    /\ op = "contains_point" => ~IsPanic(ret)

\* supporting: construction alone leaves the winding correct
C24_WindingCorrectWhenNew ==
    (vertices # <<>> /\ transforms = 0) => is_winding_correct(vertices)

\* C25: for each of the 12 origins and every quintant q, segment_to_quintant
\* of the segment that quintant_to_segment(q, origin) returned gives q with
\* the same orientation, and no other quintant of that origin has the same
\* segment, which lies in 0..4.
C25_SegmentRoundTrip ==
    [][(op = "quintant_to_segment" /\ op' = "segment_to_quintant") =>
        /\ ret'.val = <<arg[1], ret.val[2]>>
        /\ ret.val[1] \in 0..4
        /\ \A q \in (0..4) \ {arg[1]} :
               quintant_to_segment(q, arg[2])[1] # ret.val[1]]_vars

\* a round trip on a clockwise origin where the segment differs from the
\* quintant
C25_Witness ==
    /\ op = "segment_to_quintant"
    /\ is_layout_clockwise(orientation_layout(arg[2]))
    /\ arg[1] # ret.val[1]

\* strictly ascending numeric order
StrictlyAscending(cells) ==
    \A k \in 1..(Len(cells) - 1) : LessU64(cells[k], cells[k + 1])

\* C26: at the start of every pass of compact, and in the vector compact
\* returns, the working list is in strictly ascending numeric order.
C26_PassesSorted ==
    /\ cpc = "loop" => StrictlyAscending(current_cells)
    /\ (op = "compact" /\ cpc = "done" /\ IsOk(ret)) => StrictlyAscending(ret.val)

\* supporting: the first pass starts from a strictly ascending list
C26_FirstPassSorted ==
    (cpc = "scan" /\ SeqToSet(current_cells) = SeqToSet(arg)) =>
        StrictlyAscending(current_cells)

\* every filled slot of the old cache holds the same triangle in the new one
SlotsKept(old, new) == \A i \in DOMAIN old : i \in DOMAIN new /\ new[i] = old[i]

\* the spherical-triangle slot of a request <<origin id, index, reflected>>
spherical_slot(call) ==
    10 * call[1] + call[2] + (IF call[3] THEN 120 ELSE 0)

\* what a call returns on an instance with empty caches
FreshResult(name, call) ==
    IF name = "forward"
    THEN forward(EmptyCache, EmptyCache, call[2], call[1], call[3]).ret
    ELSE inverse(EmptyCache, EmptyCache, call[2], call[1], call[3]).ret

\* the properties of C27 for the calls whose origin id is in Ids
CacheIndependent(Ids) ==
    op' \in {"forward", "inverse"} =>
        /\ SlotsKept(face_triangles, face_triangles')
        /\ SlotsKept(spherical_triangles, spherical_triangles')
        /\ \A call \in ProjectionCalls :
              (call[1] \in Ids
                 /\ spherical_slot(call) \in DOMAIN spherical_triangles') =>
                    compute_spherical_triangle(EmptyCache, call[2], call[1],
                                               call[3]).ret
                        = Ok(spherical_triangles'[spherical_slot(call)])
        /\ arg'[1] \in Ids => ret' = FreshResult(op', arg')

\* C27: over any sequence of forward and inverse calls on one instance, a
\* filled slot never changes, every request that maps to a filled slot
\* computes the triangle the slot holds, and the result of a call is the
\* result the same call gives on an instance with empty caches.
C27_CacheIndependent == [][CacheIndependent(OriginInputs)]_vars

\* supporting: the same for calls with an origin id below NUM_ORIGINS
C27_CacheIndependentValidOrigin ==
    [][CacheIndependent(0..(NUM_ORIGINS - 1))]_vars

\* the least exponent among the numbers of S
min_exp(S) == CHOOSE e \in {f[2] : f \in S} : \A g \in S : e <= g[2]

\* (v1 - v2) x (point - v1) without rounding, in units of the least exponent
exact_cross(v1, v2, point) ==
    LET e == min_exp({v1[1], v1[2], v2[1], v2[2], point[1], point[2]})
        x(f) == f[1] * Pow2(f[2] - e)
    IN  (x(v1[1]) - x(v2[1])) * (x(point[2]) - x(v1[2]))
            - (x(v1[2]) - x(v2[2])) * (x(point[1]) - x(v1[1]))

\* the exact crosses of a point with the three edges of a triangle
edge_sides(tri, point) ==
    {exact_cross(tri[i], tri[(i % 3) + 1], point) : i \in 1..3}

StrictlyInside(tri, point) ==
    (\A c \in edge_sides(tri, point) : c > 0)
        \/ (\A c \in edge_sides(tri, point) : c < 0)

StrictlyOutside(tri, point) ==
    /\ \E c \in edge_sides(tri, point) : c > 0
    /\ \E c \in edge_sides(tri, point) : c < 0

\* C28: for a resolution-1 cell the shape built by get_pentagon reports
\* containment (a value > 0) for every face point strictly inside the
\* cell's quintant triangle and a negative value for every point outside.
C28_QuintantContains ==
    op = "a5cell_contains_point" =>
        /\ IsOk(ret)
        /\ (StrictlyInside(get_quintant_vertices(arg[1]), arg[2]) => ret.val > 0)
        /\ (StrictlyOutside(get_quintant_vertices(arg[1]), arg[2]) => ret.val < 0)

\* supporting: points outside the triangle get a negative value, and the
\* triangle itself, tested as a three-vertex shape, contains its inner points
C28_TriangleContains ==
    op = "a5cell_contains_point" =>
        /\ IsOk(ret)
        /\ (StrictlyOutside(get_quintant_vertices(arg[1]), arg[2]) => ret.val < 0)
        /\ (StrictlyInside(get_quintant_vertices(arg[1]), arg[2]) =>
              contains_point(get_quintant_vertices(arg[1]), arg[2]) = Ok(1))

\* the input cells cover all of cell x: x is an input cell, or each of its
\* children is covered, looking at most depth levels down
RECURSIVE Covered(_, _, _)
Covered(x, inputs, depth) ==
    \/ x \in inputs
    \/ /\ depth > 0
       /\ get_resolution(x) < MAX_RESOLUTION - 1
       /\ \A child \in ChildrenOf(x, get_resolution(x) + 1) :
              Covered(child, inputs, depth - 1)

TargetOr(target, default) == IF target = NoneRes THEN default ELSE target

\* going to resolution r2 through resolution r1 gives the parent the call
\* returned
ParentThrough(c, r1, r2, direct) ==
    LET via(mid) ==
            IsOk(mid) /\ cell_to_parent(mid.val, r2, overflow_checks) = direct
    IN  IsOk(direct) /\ via(cell_to_parent(c, r1, overflow_checks))

\* when every call succeeds, the children at r2 of the children at r1 are
\* together the children the call returned
ChildrenThrough(c, r1, r2, direct) ==
    LET below(k) == cell_to_children(k, r2, overflow_checks)
        via(mid) ==
            (IsOk(mid) /\ \A k \in SeqToSet(mid.val) : IsOk(below(k))) =>
                UNION {SeqToSet(below(k).val) : k \in SeqToSet(mid.val)}
                    = SeqToSet(direct.val)
    IN  via(cell_to_children(c, r1, overflow_checks))

\* C30: for a valid cell c, cell_to_parent to r2 equals cell_to_parent to
\* r1 and from there to r2 for 0 <= r2 <= r1 <= resolution(c); and when the
\* calls succeed cell_to_children(c, r2) is the union of the children at r2
\* of the cells of cell_to_children(c, r1), for resolution(c) <= r1 <= r2.
C30_HierarchyComposes ==
    /\ (op = "cell_to_parent" /\ ValidId(arg[1])) =>
          \A r1 \in 0..get_resolution(arg[1]) :
              TargetOr(arg[2], get_resolution(arg[1]) - 1) \in 0..r1 =>
                  ParentThrough(arg[1], r1,
                      TargetOr(arg[2], get_resolution(arg[1]) - 1), ret)
    /\ (op = "cell_to_children" /\ ValidId(arg[1]) /\ IsOk(ret)) =>
          \A r1 \in get_resolution(arg[1])..
                        TargetOr(arg[2], get_resolution(arg[1]) + 1) :
              ChildrenThrough(arg[1], r1,
                  TargetOr(arg[2], get_resolution(arg[1]) + 1), ret)

\* the sixteen grandchildren of a cell at a Hilbert resolution were returned
C30_Witness ==
    /\ op = "cell_to_children"
    /\ ValidId(arg[1])
    /\ get_resolution(arg[1]) >= FIRST_HILBERT_RESOLUTION
    /\ arg[2] = get_resolution(arg[1]) + 2
    /\ IsOk(ret)
    /\ Len(ret.val) = 16

====
